---- MODULE Spec2Model ----
(***************************************************************************)
(* Interval-structure detection of running-coach-poc                       *)
(* (src/app/adapters/strava.py, build_intervals_structure_v4) together     *)
(* with the two SQLite tables it works on: stream_points (read) and        *)
(* laps_auto (delete-then-insert inside one connection).                   *)
(*                                                                         *)
(* Number representation.  Python computes on floats; the model computes   *)
(* on exact rationals carried as scaled integers:                          *)
(*   velocity_m_s   in units of 1/2 m/s   (5 = 2.5 m/s, 10 = 5.0 m/s)       *)
(*   distance_m     in units of 1/2 m     (80 = 40.0 m)                     *)
(*   time_s, heartrate_bpm, grade  plain integers                          *)
(*   smoothed velocity  in units of 1/(2*MeanDen) m/s                      *)
(*   a SQL NULL / Python None is the empty tuple, a present value x is <<x>>*)
(***************************************************************************)
EXTENDS Integers, Sequences, FiniteSets, TLC

None == <<>>
Some(x) == <<x>>

Max(a, b) == IF a >= b THEN a ELSE b
Min(a, b) == IF a <= b THEN a ELSE b
Abs(a) == IF a >= 0 THEN a ELSE 0 - a

RECURSIVE Gcd(_, _)
Gcd(a, b) == IF b = 0 THEN a ELSE Gcd(b, a % b)

\* An exact non-negative rational n/d (d > 0) in lowest terms: the value of a
\* Python float division, without its rounding.
Frac(n, d) ==
    LET g == Gcd(n, d)
    IN  IF n = 0 THEN <<0, 1>> ELSE <<n \div g, d \div g>>

(***************************************************************************)
(* Parameters of build_intervals_structure_v4 (hard-coded locals).         *)
(***************************************************************************)
smooth_window == 9
min_eff_s == 18
merge_gap_s == 3
MinValid == 60

\* min_eff_dist_m = 40.0 m, in half metres.
min_eff_dist_m == 2 * 40

\* Common denominator of every window mean: lcm(1..smooth_window).
MeanDen == 8 * 9 * 5 * 7

(***************************************************************************)
(* _mean, _median                                                          *)
(***************************************************************************)
\* s[lo] + ... + s[hi], halving the range.
RECURSIVE SumSeq(_, _, _)
SumSeq(s, lo, hi) ==
    IF lo > hi THEN 0
    ELSE IF lo = hi THEN s[lo]
    ELSE LET mid == (lo + hi) \div 2
         IN  SumSeq(s, lo, mid) + SumSeq(s, mid + 1, hi)

\* _mean of a list without None: the exact mean, or None for the empty list.
_mean(values) ==
    IF Len(values) = 0 THEN None
    ELSE Some(Frac(SumSeq(values, 1, Len(values)), Len(values)))

\* The k-th (0-based) element of sorted(values).
Sorted_at(values, k) ==
    LET n == Len(values)
        below(x) == Cardinality({i \in 1..n : values[i] < x})
        upto(x) == Cardinality({i \in 1..n : values[i] <= x})
    IN  CHOOSE x \in {values[i] : i \in 1..n} : below(x) <= k /\ k < upto(x)

\* _median of a non-empty list of numbers, returned doubled so that the
\* average of the two middle values stays an integer; None for the empty list.
_median(values) ==
    LET n == Len(values)
        mid == n \div 2
    IN  IF n = 0 THEN None
        ELSE IF n % 2 = 1 THEN Some(2 * Sorted_at(values, mid))
        ELSE Some(Sorted_at(values, mid - 1) + Sorted_at(values, mid))

(***************************************************************************)
(* _rolling_mean: centred window, clipped at the edges, None ignored.      *)
(* Input in half m/s; output scaled by MeanDen.                            *)
(***************************************************************************)
\* The window mean with a missing value counted as a zero.
_rolling_mean_nulls_as_zero(values, window) ==
    LET n == Len(values)
        half == window \div 2
        span(i) == Max(1, i - half)..Min(n, i + half)
        present(i) == {j \in span(i) : values[j] # None}
        RECURSIVE total(_)
        total(S) == IF S = {} THEN 0
                    ELSE LET j == CHOOSE k \in S : TRUE
                         IN  values[j][1] + total(S \ {j})
    IN  IF window <= 1
        THEN [i \in 1..n |-> IF values[i] = None THEN None
                             ELSE Some(values[i][1] * MeanDen)]
        ELSE [i \in 1..n |->
                IF present(i) = {} THEN None
                ELSE Some((total(present(i)) * MeanDen) \div Cardinality(span(i)))]

_rolling_mean(values, window) ==
    LET n == Len(values)
        half == window \div 2
        present(i) == {j \in Max(1, i - half)..Min(n, i + half) : values[j] # None}
        RECURSIVE total(_)
        total(S) == IF S = {} THEN 0
                    ELSE LET j == CHOOSE k \in S : TRUE
                         IN  values[j][1] + total(S \ {j})
    IN  IF window <= 1
        THEN [i \in 1..n |-> IF values[i] = None THEN None
                             ELSE Some(values[i][1] * MeanDen)]
        ELSE [i \in 1..n |->
                IF present(i) = {} THEN None
                ELSE Some((total(present(i)) * MeanDen) \div Cardinality(present(i)))]

(***************************************************************************)
(* _median_mad, _robust_z                                                  *)
(***************************************************************************)
\* (2 * median, 4 * MAD) of a list of scaled velocities; (0, 0) when empty.
_median_mad(values) ==
    LET med == _median(values)
        abs_dev == [i \in 1..Len(values) |-> Abs(2 * values[i] - med[1])]
        mad == _median(abs_dev)
    IN  IF med = None THEN <<0, 0>> ELSE <<med[1], mad[1]>>

\* The scale test never passing: the division is always made.
ScaleDegenerate_never(mad4) == FALSE

\* scale = 1.4826 * mad <= 1e-9.  A positive MAD of the model is at least
\* 1/(8*MeanDen) m/s, far above 1e-9, so the test is mad = 0.
ScaleDegenerate(mad4) == mad4 <= 0

\* z = (v - med) / (1.4826 * mad) as a pair <<numerator, denominator>> with a
\* positive denominator; <<0, 1>> for the degenerate scale; None for None.
\* With V = v scaled, med2 = 2*med, mad4 = 4*mad:
\*   z = 10000 * (2V - med2) / (7413 * mad4).
_robust_z(v, med2, mad4) ==
    IF v = None THEN None
    ELSE IF ScaleDegenerate(mad4) THEN Some(<<0, 1>>)
    ELSE Some(<<10000 * (2 * v[1] - med2), 7413 * mad4>>)

\* zi >= z_eff_on (1.0) and zi <= z_eff_off (0.4 = 2/5), by cross-multiplication.
GeOn(zi) == zi[1] >= zi[2]
LeOff(zi) == 5 * zi[1] <= 2 * zi[2]

(***************************************************************************)
(* Hysteresis labelling and run-length blocks (strava.py 380-405).         *)
(* Indices are 0-based as in the code; element i of a list is seq[i + 1].  *)
(***************************************************************************)
\* The labeller with one threshold: EFFORT exactly while z >= z_eff_on.
NextLabel_one_threshold(state, zi) ==
    IF zi = None THEN "NEUTRAL"
    ELSE IF GeOn(zi[1]) THEN "EFFORT" ELSE "NEUTRAL"

\* The state after sample zi, from the state before it.
NextLabel(state, zi) ==
    IF zi = None THEN "NEUTRAL"
    ELSE IF state = "NEUTRAL"
         THEN (IF GeOn(zi[1]) THEN "EFFORT" ELSE "NEUTRAL")
         ELSE (IF LeOff(zi[1]) THEN "NEUTRAL" ELSE "EFFORT")

\* The labels of samples lo..hi, the loop entering sample lo in `state`.  The
\* loop runs left to right; the range is halved only to keep the nesting low.
RECURSIVE LabelsFrom(_, _, _, _)
LabelsFrom(z, lo, hi, state) ==
    IF lo > hi THEN <<>>
    ELSE IF lo = hi THEN <<NextLabel(state, z[lo])>>
    ELSE LET mid == (lo + hi) \div 2
             left == LabelsFrom(z, lo, mid, state)
         IN  left \o LabelsFrom(z, mid + 1, hi, left[Len(left)])

Labels(z) == LabelsFrom(z, 1, Len(z), "NEUTRAL")

\* blocks: maximal runs of equal labels as <<label, start, end>>, 0-based.
\* The block starting at position start ends right before the next change.
RECURSIVE BlocksFrom(_, _)
BlocksFrom(labels, start) ==
    IF start > Len(labels) THEN <<>>
    ELSE LET changes == {i \in (start + 1)..Len(labels) : labels[i] # labels[start]}
             next == IF changes = {} THEN Len(labels) + 1
                     ELSE CHOOSE i \in changes : \A j \in changes : i <= j
         IN  <<<<labels[start], start - 1, next - 2>>>> \o BlocksFrom(labels, next)

Blocks(labels) == BlocksFrom(labels, 1)

(***************************************************************************)
(* Candidate filter and merge (strava.py 407-435).                         *)
(***************************************************************************)
\* The filter falling back on the index count when an end time is missing,
\* as _make_row does.
Accepted_index_fallback(b, ts, ds) ==
    LET t0 == ts[b[2] + 1]
        t1 == ts[b[3] + 1]
        d0 == ds[b[2] + 1]
        d1 == ds[b[3] + 1]
        dur == IF t0 = None \/ t1 = None THEN Max(0, b[3] - b[2])
               ELSE Max(0, t1[1] - t0[1])
    IN  /\ b[1] = "EFFORT"
        /\ d0 # None /\ d1 # None
        /\ dur >= min_eff_s
        /\ Max(0, d1[1] - d0[1]) >= min_eff_dist_m

\* The filter without its duration test.
Accepted_any_duration(b, ts, ds) ==
    LET t0 == ts[b[2] + 1]
        t1 == ts[b[3] + 1]
        d0 == ds[b[2] + 1]
        d1 == ds[b[3] + 1]
    IN  /\ b[1] = "EFFORT"
        /\ t0 # None /\ t1 # None /\ d0 # None /\ d1 # None
        /\ Max(0, d1[1] - d0[1]) >= min_eff_dist_m

\* The filter's verdict on the label block b = <<lab, s, e>>.
Accepted(b, ts, ds) ==
    LET t0 == ts[b[2] + 1]
        t1 == ts[b[3] + 1]
        d0 == ds[b[2] + 1]
        d1 == ds[b[3] + 1]
    IN  /\ b[1] = "EFFORT"
        /\ t0 # None /\ t1 # None /\ d0 # None /\ d1 # None
        /\ Max(0, t1[1] - t0[1]) >= min_eff_s
        /\ Max(0, d1[1] - d0[1]) >= min_eff_dist_m

RECURSIVE EffRawFrom(_, _, _, _)
EffRawFrom(blocks, i, ts, ds) ==
    IF i > Len(blocks) THEN <<>>
    ELSE (IF Accepted(blocks[i], ts, ds)
          THEN <<<<blocks[i][2], blocks[i][3]>>>> ELSE <<>>)
         \o EffRawFrom(blocks, i + 1, ts, ds)

EffRaw(blocks, ts, ds) == EffRawFrom(blocks, 1, ts, ds)

\* The merge step joining only candidates closer than merge_gap_s.
MergeStep_below_gap(eff_blocks, c) ==
    IF eff_blocks = <<>> THEN <<c>>
    ELSE LET n == Len(eff_blocks)
             gap == c[1] - eff_blocks[n][2] - 1
         IN  IF gap < merge_gap_s
             THEN [eff_blocks EXCEPT ![n] = <<eff_blocks[n][1], c[2]>>]
             ELSE Append(eff_blocks, c)

\* The merge step joining candidates up to merge_gap_s + 1 samples apart.
MergeStep_wider_gap(eff_blocks, c) ==
    IF eff_blocks = <<>> THEN <<c>>
    ELSE LET n == Len(eff_blocks)
             gap == c[1] - eff_blocks[n][2] - 1
         IN  IF gap <= merge_gap_s + 1
             THEN [eff_blocks EXCEPT ![n] = <<eff_blocks[n][1], c[2]>>]
             ELSE Append(eff_blocks, c)

\* One step of the merge loop: candidate c against the list built so far.
MergeStep(eff_blocks, c) ==
    IF eff_blocks = <<>> THEN <<c>>
    ELSE LET n == Len(eff_blocks)
             ps == eff_blocks[n][1]
             pe == eff_blocks[n][2]
             gap == c[1] - pe - 1
         IN  IF gap <= merge_gap_s
             THEN [eff_blocks EXCEPT ![n] = <<ps, c[2]>>]
             ELSE Append(eff_blocks, c)

RECURSIVE MergeFrom(_, _, _)
MergeFrom(eff_raw, i, acc) ==
    IF i > Len(eff_raw) THEN acc
    ELSE MergeFrom(eff_raw, i + 1, MergeStep(acc, eff_raw[i]))

EffBlocks(eff_raw) == MergeFrom(eff_raw, 1, <<>>)

(***************************************************************************)
(* Derived spans (strava.py 447-459).                                      *)
(***************************************************************************)
\* The warmup running up to the first effort's first sample, included.
Warmup_to_effort_start(eff_blocks) ==
    IF eff_blocks[1][1] > 0 THEN Some(<<0, eff_blocks[1][1]>>) ELSE None

\* A warmup only when at least two samples precede the first effort.
Warmup_two_samples(eff_blocks) ==
    IF eff_blocks[1][1] > 1 THEN Some(<<0, eff_blocks[1][1] - 1>>) ELSE None

Warmup(eff_blocks) ==
    IF eff_blocks[1][1] > 0 THEN Some(<<0, eff_blocks[1][1] - 1>>) ELSE None

\* The cooldown starting on the last effort's last sample.
Cooldown_from_effort_end(eff_blocks, n) ==
    LET last == eff_blocks[Len(eff_blocks)]
    IN  IF last[2] < n - 1 THEN Some(<<last[2], n - 1>>) ELSE None

Cooldown(eff_blocks, n) ==
    LET last == eff_blocks[Len(eff_blocks)]
    IN  IF last[2] < n - 1 THEN Some(<<last[2] + 1, n - 1>>) ELSE None

RECURSIVE RecFrom(_, _)
RecFrom(eff_blocks, i) ==
    IF i >= Len(eff_blocks) THEN <<>>
    ELSE LET rs == eff_blocks[i][2] + 1
             re == eff_blocks[i + 1][1] - 1
         IN  (IF rs < re THEN <<<<rs, re>>>> ELSE <<>>) \o RecFrom(eff_blocks, i + 1)

\* The recoveries kept only when longer than merge_gap_s + 2 samples.
RecBlocks_long_only(eff_blocks) ==
    LET all == RecFrom(eff_blocks, 1)
        long(b) == b[2] - b[1] > merge_gap_s + 1
    IN  SelectSeq(all, long)

RecBlocks(eff_blocks) == RecFrom(eff_blocks, 1)

(***************************************************************************)
(* _make_row (strava.py 280-320).  pts is the fetched list, s_i and e_i    *)
(* are 0-based positions in it.                                            *)
(***************************************************************************)
\* The pace in seconds per metre: the factor 1000 left out.
_pace_per_metre(duration_s, dist_m) ==
    IF dist_m <= 0 THEN None ELSE Some(Frac(duration_s * 2, dist_m))

\* _pace_from_duration_distance: seconds per km as an exact fraction, the
\* distance being in half metres.
_pace_from_duration_distance(duration_s, dist_m) ==
    IF dist_m <= 0 THEN None ELSE Some(Frac(duration_s * 2000, dist_m))

\* The non-None values of field f over pts[s_i .. e_i].
FieldValues(pts, f, s_i, e_i) ==
    LET has_value(p) == p[f] # None
        seg == SelectSeq(SubSeq(pts, s_i + 1, e_i + 1), has_value)
    IN  [k \in 1..Len(seg) |-> seg[k][f][1]]

_make_row(activity_id, lap_type, lap_index, pts, s_i, e_i) ==
    LET p0 == pts[s_i + 1]
        p1 == pts[e_i + 1]
        t0 == p0.time_s
        t1 == p1.time_s
        d0 == p0.distance_m
        d1 == p1.distance_m
        duration == IF t0 = None \/ t1 = None THEN Max(0, e_i - s_i)
                    ELSE Max(0, t1[1] - t0[1])
        dist_seg == IF d0 = None \/ d1 = None THEN None
                    ELSE Some(Max(0, d1[1] - d0[1]))
        pace == IF dist_seg # None
                THEN _pace_from_duration_distance(duration, dist_seg[1])
                ELSE None
    IN  [activity_id |-> activity_id,
         lap_index |-> lap_index,
         lap_type |-> lap_type,
         start_idx |-> p0.idx,
         end_idx |-> p1.idx,
         start_time_s |-> t0,
         end_time_s |-> t1,
         duration_s |-> duration,
         distance_m |-> dist_seg,
         pace_s_per_km |-> pace,
         avg_hr |-> _mean(FieldValues(pts, "heartrate_bpm", s_i, e_i)),
         avg_grade |-> _mean(FieldValues(pts, "grade", s_i, e_i))]

(***************************************************************************)
(* _cluster_efforts_by_duration (strava.py 323-349).                       *)
(***************************************************************************)
\* Rounding to nearest with a tie going up.
RoundHalfUp(n, d) == (2 * n + d) \div (2 * d)

\* Python's round() of the rational n/d (d > 0, n >= 0): to nearest, a tie
\* going to the even neighbour.
RoundHalfEven(n, d) ==
    LET f == n \div d
        r == n - f * d
    IN  IF 2 * r > d THEN f + 1
        ELSE IF 2 * r < d THEN f
        ELSE IF f % 2 = 0 THEN f ELSE f + 1

\* sorted(values), by insertion.
RECURSIVE SortAsc(_)
SortAsc(values) ==
    IF values = <<>> THEN <<>>
    ELSE LET rest == SortAsc(Tail(values))
             x == Head(values)
             k == Cardinality({i \in 1..Len(rest) : rest[i] <= x})
         IN  SubSeq(rest, 1, k) \o <<x>> \o SubSeq(rest, k + 1, Len(rest))

\* A tolerance of 30 % of the seed instead of 15 %.
Tolerance_double(seed) == Max(8, RoundHalfEven(3 * seed, 10))

\* tol = max(8, int(round(seed * 0.15)))
Tolerance(seed) == Max(8, RoundHalfEven(3 * seed, 20))

InGroup(d, seed) == Abs(d - seed) <= Tolerance(seed)

Largest(values) ==
    CHOOSE x \in {values[i] : i \in 1..Len(values)} :
        \A i \in 1..Len(values) : values[i] <= x

\* One pass of the while loop: the cluster seeded by the largest remaining value.
ClusterOf(remaining) ==
    LET seed == Largest(remaining)
        in_group(d) == InGroup(d, seed)
        group == SelectSeq(remaining, in_group)
        m == _median(group)
        med == IF m = None \/ m[1] = 0 THEN seed ELSE RoundHalfEven(m[1], 2)
    IN  [median_s |-> med, count |-> Len(group), members |-> SortAsc(group)]

RECURSIVE ClustersFrom(_)
ClustersFrom(remaining) ==
    IF remaining = <<>> THEN <<>>
    ELSE LET c == ClusterOf(remaining)
             in_members(d) == \E i \in 1..Len(c.members) : c.members[i] = d
             not_in_group(d) == ~in_members(d)
         IN  <<c>> \o ClustersFrom(SelectSeq(remaining, not_in_group))

\* clusters.sort(key=median_s, reverse=True): stable, descending.
RECURSIVE SortByMedianDesc(_)
SortByMedianDesc(cs) ==
    IF cs = <<>> THEN <<>>
    ELSE LET rest == SortByMedianDesc(Tail(cs))
             x == Head(cs)
             k == Cardinality({i \in 1..Len(rest) : rest[i].median_s > x.median_s})
         IN  SubSeq(rest, 1, k) \o <<x>> \o SubSeq(rest, k + 1, Len(rest))

_cluster_efforts_by_duration(durations) ==
    IF durations = <<>> THEN <<>>
    ELSE SortByMedianDesc(ClustersFrom(durations))

(***************************************************************************)
(* nearest_cluster and the sets (strava.py 503-527); cluster ids 0-based.  *)
(***************************************************************************)
\* The scan with "err <= best_err": among equally near clusters the last wins.
RECURSIVE NearestFrom_last_wins(_, _, _, _, _)
NearestFrom_last_wins(clusters, d, i, best_i, best_err) ==
    IF i > Len(clusters) THEN best_i
    ELSE LET err == Abs(d - clusters[i].median_s)
         IN  IF err <= best_err
             THEN NearestFrom_last_wins(clusters, d, i + 1, i - 1, err)
             ELSE NearestFrom_last_wins(clusters, d, i + 1, best_i, best_err)

RECURSIVE NearestFrom(_, _, _, _, _)
NearestFrom(clusters, d, i, best_i, best_err) ==
    IF i > Len(clusters) THEN best_i
    ELSE LET err == Abs(d - clusters[i].median_s)
         IN  IF err < best_err
             THEN NearestFrom(clusters, d, i + 1, i - 1, err)
             ELSE NearestFrom(clusters, d, i + 1, best_i, best_err)

nearest_cluster(clusters, d) == NearestFrom(clusters, d, 1, 0, 1000000000)

\* One <<cluster id, 1>> pair per effort: equal neighbours are not joined.
RECURSIVE SetsFrom_per_effort(_, _, _, _)
SetsFrom_per_effort(seq, i, cur_id, count) ==
    IF i > Len(seq) THEN <<<<cur_id, count>>>>
    ELSE <<<<cur_id, count>>>> \o SetsFrom_per_effort(seq, i + 1, seq[i], 1)

\* Run-length encoding of seq as <<cluster id, count>> pairs.
RECURSIVE SetsFrom(_, _, _, _)
SetsFrom(seq, i, cur_id, count) ==
    IF i > Len(seq) THEN <<<<cur_id, count>>>>
    ELSE IF seq[i] = cur_id THEN SetsFrom(seq, i + 1, cur_id, count + 1)
    ELSE <<<<cur_id, count>>>> \o SetsFrom(seq, i + 1, seq[i], 1)

Sets(seq) == IF seq = <<>> THEN <<>> ELSE SetsFrom(seq, 2, seq[1], 1)

(***************************************************************************)
(* build_intervals_structure_v4, the computation (strava.py 352-475 and    *)
(* 491-544) on the fetched points pts of activity_id.  The record holds    *)
(* the function's locals; "path" names the branch taken:                   *)
(*   "raise"         no points (line 355)                                  *)
(*   "insufficient"  fewer than 60 valid smoothed speeds (line 375)        *)
(*   "no_efforts"    no effort block left (lines 438-445)                  *)
(*   "ok"            the normal path                                       *)
(***************************************************************************)
\* The parameters reported without the two thresholds.
Params_without_thresholds ==
    [smooth_window |-> smooth_window, min_eff_s |-> min_eff_s,
     min_eff_dist_m |-> min_eff_dist_m, merge_gap_s |-> merge_gap_s]

Params ==
    [smooth_window |-> smooth_window, z_eff_on |-> <<1, 1>>, z_eff_off |-> <<2, 5>>,
     min_eff_s |-> min_eff_s, min_eff_dist_m |-> min_eff_dist_m,
     merge_gap_s |-> merge_gap_s]

\* rows_to_insert numbered by the loop variable itself: EFFORT and RECUP from 0.
RowsToInsert_from_zero(activity_id, pts, warmup, eff_blocks, rec_blocks, cooldown) ==
    (IF warmup # None /\ warmup[1][1] <= warmup[1][2]
     THEN <<_make_row(activity_id, "WARMUP", 1, pts, warmup[1][1], warmup[1][2])>>
     ELSE <<>>)
    \o [i \in 1..Len(eff_blocks) |->
          _make_row(activity_id, "EFFORT", i - 1, pts, eff_blocks[i][1], eff_blocks[i][2])]
    \o [i \in 1..Len(rec_blocks) |->
          _make_row(activity_id, "RECUP", i - 1, pts, rec_blocks[i][1], rec_blocks[i][2])]
    \o (IF cooldown # None /\ cooldown[1][1] <= cooldown[1][2]
        THEN <<_make_row(activity_id, "COOLDOWN", 1, pts, cooldown[1][1], cooldown[1][2])>>
        ELSE <<>>)

\* rows_to_insert (lines 462-475), in insertion order.
RowsToInsert(activity_id, pts, warmup, eff_blocks, rec_blocks, cooldown) ==
    (IF warmup # None /\ warmup[1][1] <= warmup[1][2]
     THEN <<_make_row(activity_id, "WARMUP", 1, pts, warmup[1][1], warmup[1][2])>>
     ELSE <<>>)
    \o [i \in 1..Len(eff_blocks) |->
          _make_row(activity_id, "EFFORT", i, pts, eff_blocks[i][1], eff_blocks[i][2])]
    \o [i \in 1..Len(rec_blocks) |->
          _make_row(activity_id, "RECUP", i, pts, rec_blocks[i][1], rec_blocks[i][2])]
    \o (IF cooldown # None /\ cooldown[1][1] <= cooldown[1][2]
        THEN <<_make_row(activity_id, "COOLDOWN", 1, pts, cooldown[1][1], cooldown[1][2])>>
        ELSE <<>>)

\* effort_durations (lines 492-498).
\* The durations counted in samples, whatever the clock.
EffortDurations_in_samples(eff_blocks, ts) ==
    [i \in 1..Len(eff_blocks) |-> Max(0, eff_blocks[i][2] - eff_blocks[i][1])]

EffortDurations(eff_blocks, ts) ==
    [i \in 1..Len(eff_blocks) |->
        LET t0 == ts[eff_blocks[i][1] + 1]
            t1 == ts[eff_blocks[i][2] + 1]
        IN  IF t0 = None \/ t1 = None
            THEN Max(0, eff_blocks[i][2] - eff_blocks[i][1])
            ELSE Max(0, t1[1] - t0[1])]

IsValidSpeed(v) == v # None /\ v[1] > MeanDen

\* The branch taken without the emptiness test of line 354: an empty list then
\* falls through to the test of line 374 and is answered softly.
PathOf_unguarded(n, nvalid, neff) ==
    IF nvalid < MinValid THEN "insufficient"
    ELSE IF neff = 0 THEN "no_efforts"
    ELSE "ok"

\* The branch taken when too few valid speeds are answered like an empty list.
PathOf_raise_on_few(n, nvalid, neff) ==
    IF n = 0 \/ nvalid < MinValid THEN "raise"
    ELSE IF neff = 0 THEN "no_efforts"
    ELSE "ok"

\* The branch taken with the floor of line 374 halved.
PathOf_low_floor(n, nvalid, neff) ==
    IF n = 0 THEN "raise"
    ELSE IF 2 * nvalid < MinValid THEN "insufficient"
    ELSE IF neff = 0 THEN "no_efforts"
    ELSE "ok"

\* The branch build_intervals_structure_v4 takes (lines 354, 374, 438), from
\* the number of points, of valid smoothed speeds and of final effort blocks.
PathOf(n, nvalid, neff) ==
    IF n = 0 THEN "raise"
    ELSE IF nvalid < MinValid THEN "insufficient"
    ELSE IF neff = 0 THEN "no_efforts"
    ELSE "ok"

Detect(activity_id, pts) ==
    LET n == Len(pts)
        ts == [i \in 1..n |-> pts[i].time_s]
        ds == [i \in 1..n |-> pts[i].distance_m]
        vs == [i \in 1..n |-> pts[i].velocity_m_s]
        vs_s == _rolling_mean(vs, smooth_window)
        valid_s == SelectSeq(vs_s, IsValidSpeed)
        valid == [i \in 1..Len(valid_s) |-> valid_s[i][1]]
        mm == _median_mad(valid)
        z == [i \in 1..n |-> _robust_z(vs_s[i], mm[1], mm[2])]
        labels == Labels(z)
        blocks == Blocks(labels)
        eff_raw == EffRaw(blocks, ts, ds)
        eff_blocks == EffBlocks(eff_raw)
        warmup == Warmup(eff_blocks)
        cooldown == Cooldown(eff_blocks, n)
        rec_blocks == RecBlocks(eff_blocks)
        effort_durations == EffortDurations(eff_blocks, ts)
        clusters == _cluster_efforts_by_duration(effort_durations)
        seq == [i \in 1..Len(effort_durations) |->
                   nearest_cluster(clusters, effort_durations[i])]
        sets == Sets(seq)
        path == PathOf(n, Len(valid), Len(eff_blocks))
    IN  IF path = "raise" THEN
            [path |-> "raise", rows_to_insert |-> <<>>,
             result |-> [error |-> "RuntimeError: Aucun stream_points pour cette activite."]]
        ELSE IF path = "insufficient" THEN
            [path |-> "insufficient", rows_to_insert |-> <<>>,
             result |-> [note |-> "Not enough valid speed points", effort_count |-> 0]]
        ELSE IF path = "no_efforts" THEN
            [path |-> "no_efforts", rows_to_insert |-> <<>>,
             vs_s |-> vs_s, v_med |-> mm[1], v_mad |-> mm[2], z |-> z, labels |-> labels, blocks |-> blocks, eff_raw |-> eff_raw, eff_blocks |-> eff_blocks,
             result |-> [effort_count |-> 0, recup_count |-> 0,
                         note |-> "No efforts detected"]]
        ELSE
            [path |-> "ok",
             rows_to_insert |->
                RowsToInsert(activity_id, pts, warmup, eff_blocks, rec_blocks, cooldown),
             vs_s |-> vs_s, v_med |-> mm[1], v_mad |-> mm[2], z |-> z, labels |-> labels,
             blocks |-> blocks, eff_raw |-> eff_raw, eff_blocks |-> eff_blocks,
             rec_blocks |-> rec_blocks, warmup |-> warmup, cooldown |-> cooldown,
             effort_durations |-> effort_durations, seq |-> seq,
             result |-> [effort_count |-> Len(eff_blocks),
                         recup_count |-> Len(rec_blocks),
                         warmup |-> warmup # None,
                         cooldown |-> cooldown # None,
                         v_median |-> mm[1], v_mad |-> mm[2],
                         params |-> Params,
                         clusters |-> clusters,
                         sets |-> [i \in 1..Len(sets) |->
                                     [median_s |-> clusters[sets[i][1] + 1].median_s,
                                      count |-> sets[i][2]]]]]

(***************************************************************************)
(* Streams.  A shape describes a recorded run as consecutive stretches     *)
(* <<samples, speed pattern>>, one sample every dt seconds, the pattern    *)
(* repeated cyclically; tnull, dnull, vnull, hnull, gnull are the indices  *)
(* whose time, distance, velocity, heart rate or grade the provider left   *)
(* out.  Distance is the running sum of speed times dt.                    *)
(***************************************************************************)
Wavy == <<4, 5, 6, 5>>
Flat == <<5>>
Fast == <<10>>
Still == <<0>>

RECURSIVE Speeds(_)
Speeds(segs) ==
    IF segs = <<>> THEN <<>>
    ELSE [k \in 1..segs[1][1] |-> segs[1][2][((k - 1) % Len(segs[1][2])) + 1]]
         \o Speeds(Tail(segs))

\* The streams hold what the device recorded: when shape.restart is set, the
\* clock and the odometer start again from zero at that index.
StreamOf(shape) ==
    LET v == Speeds(shape.segs)
        origin(i) == IF shape.restart # None /\ i - 1 >= shape.restart[1]
                     THEN shape.restart[1] ELSE 0
    IN  [i \in 1..Len(v) |->
           [idx |-> i - 1,
            time_s |-> IF (i - 1) \in shape.tnull THEN None
                       ELSE Some(shape.dt * (i - 1 - origin(i))),
            distance_m |-> IF (i - 1) \in shape.dnull THEN None
                           ELSE Some(shape.dt * SumSeq(v, origin(i) + 1, i)),
            velocity_m_s |-> IF (i - 1) \in shape.vnull THEN None ELSE Some(v[i]),
            heartrate_bpm |-> IF (i - 1) \in shape.hnull THEN None
                              ELSE Some(120 + 4 * v[i]),
            grade |-> IF (i - 1) \in shape.gnull THEN None
                      ELSE Some(((i - 1) % 3) - 1)]]

Recording(segs, dt, tnull, dnull, vnull, hnull, gnull) ==
    [segs |-> segs, dt |-> dt, tnull |-> tnull, dnull |-> dnull, vnull |-> vnull,
     hnull |-> hnull, gnull |-> gnull, restart |-> None]

\* The recording `shape` with the clock and the odometer restarted at index `at`.
Restarted(shape, at) == [shape EXCEPT !.restart = Some(at)]

\* A recording at one sample per second whose heart rate is missing with the
\* velocity.
Shape(segs, tnull, dnull, vnull) ==
    Recording(segs, 1, tnull, dnull, vnull, vnull, {})

\* The recordings a sync can deliver.  What the detection makes of them:
\*   1  30 s jog                                  too few valid speeds
\*   2  70 s at constant speed                    no effort (MAD = 0)
\*   3  a 24 s sprint inside a jog                WARMUP, EFFORT, COOLDOWN
\*   4  60 s fast, speed missing for 12 samples   WARMUP, 2 EFFORT, RECUP, COOLDOWN
Catalogue ==
    << Shape(<<<<30, Wavy>>>>, {}, {}, {}),
       Shape(<<<<70, Flat>>>>, {}, {}, {}),
       Shape(<<<<24, Wavy>>, <<24, Fast>>, <<24, Wavy>>>>, {}, {}, {}),
       Shape(<<<<40, Wavy>>, <<60, Fast>>, <<40, Wavy>>>>, {}, {}, 64..75) >>

\* A wider family of recordings: a jog of `lead` samples, a sprint of `fast`
\* samples, a jog of `tail` samples, with one of the defects below.
\*   "none"   complete data
\*   "v11"    speed missing for 11 samples inside the sprint
\*   "v12"    speed missing for 12 samples inside the sprint
\*   "t"      time missing around the start of the sprint
\*   "d"      distance missing around the end of the sprint
Leads == {0, 24, 40}
Sprints == {0, 10, 24, 60}
Tails == {0, 24, 40}
Defects == {"none", "v11", "v12", "t", "d"}

FamilyShape(lead, fast, tail, defect) ==
    Shape(<<<<lead, Wavy>>, <<fast, Fast>>, <<tail, Wavy>>>>,
          IF defect = "t" THEN {i \in (lead - 6)..(lead + 2) : i >= 0} ELSE {},
          IF defect = "d"
          THEN {i \in (lead + fast - 3)..(lead + fast + 5) : i < lead + fast + tail}
          ELSE {},
          IF defect = "v11" /\ fast >= 40 THEN (lead + 24)..(lead + 34)
          ELSE IF defect = "v12" /\ fast >= 40 THEN (lead + 24)..(lead + 35)
          ELSE {})

Family ==
    {FamilyShape(lead, fast, tail, defect) :
        lead \in Leads, fast \in Sprints, tail \in Tails, defect \in Defects}

\* Recordings with fields missing: a 24 s sprint inside a jog, sampled every
\* dt seconds, each field missing on no sample, on every sample, on the first
\* and last sample, or on every other sample.
Clocks == {1, 2}
Missing == {"none", "all", "ends", "odd"}

Nulls(kind, n) ==
    CASE kind = "none" -> {}
      [] kind = "all" -> 0..(n - 1)
      [] kind = "ends" -> {0, n - 1}
      [] kind = "odd" -> {i \in 0..(n - 1) : i % 2 = 1}

Damaged ==
    {Recording(<<<<24, Wavy>>, <<24, Fast>>, <<24, Wavy>>>>, dt,
               Nulls(t, 72), Nulls(d, 72), Nulls(v, 72), Nulls(hg, 72), Nulls(hg, 72)) :
        dt \in Clocks, t \in Missing, d \in Missing, v \in Missing,
        hg \in {"none", "all"}}

\* The spike of the specification's example: flat at 2.5 m/s, samples 100-130
\* at 5.0 m/s, then flat again for `tail` samples.
SpikeTails == {20, 40}

Spike(tail) ==
    Shape(<<<<100, Flat>>, <<31, Fast>>, <<tail, Flat>>>>, {}, {}, {})

\* A short sprint of `fast` samples inside a jog.
ShortSprints == {10, 11}

ShortSprint(fast, dt) ==
    Recording(<<<<40, Wavy>>, <<fast, Fast>>, <<40, Wavy>>>>, dt, {}, {}, {}, {}, {})

\* Two sprints, the speed missing for 11 samples inside the first and for 12
\* inside the second.
TwoHoles ==
    Shape(<<<<80, Wavy>>, <<40, Fast>>, <<40, Wavy>>, <<40, Fast>>, <<80, Wavy>>>>,
          {}, {}, (94..104) \cup (174..185))

\* Two sprints with a standing rest between them.
StandingRest ==
    Shape(<<<<40, Wavy>>, <<24, Fast>>, <<20, Still>>, <<24, Fast>>, <<40, Wavy>>>>,
          {}, {}, {})

\* A constant speed, missing for 12 samples.
FlatWithHole == Shape(<<<<100, Flat>>>>, {}, {}, 40..51)

\* A sprint from the first sample, the speed missing for the first 5 samples:
\* the effort starts at index 1.
LateStart == Shape(<<<<24, Fast>>, <<48, Wavy>>>>, {}, {}, 0..4)

\* A sprint to the last sample, the speed missing for the last 5 samples: the
\* effort ends one sample before the end.
EarlyEnd == Shape(<<<<48, Wavy>>, <<24, Fast>>>>, {}, {}, 67..71)

\* One sprint, the speed missing for 11 samples inside it.
HoleInSprint ==
    Shape(<<<<60, Wavy>>, <<50, Fast>>, <<60, Wavy>>>>, {}, {}, 80..90)

\* Where a device can restart the recording of HoleInSprint: inside the hole.
RestartAt == {86}

\* Three sprints of 30, 22 and 21 samples.
Ladder ==
    Shape(<<<<60, Wavy>>, <<30, Fast>>, <<30, Wavy>>, <<22, Fast>>, <<30, Wavy>>,
            <<21, Fast>>, <<60, Wavy>>>>, {}, {}, {})

\* A sprint with the speed missing for 9 samples, then one fast sample and
\* one sample at standstill before the sprint goes on.
Blip ==
    Shape(<<<<60, Wavy>>, <<40, Fast>>, <<1, Still>>, <<31, Fast>>, <<60, Wavy>>>>,
          {}, {}, 90..98)

Examples ==
    {Spike(tail) : tail \in SpikeTails}
    \cup {ShortSprint(fast, dt) : fast \in ShortSprints, dt \in Clocks}
    \cup {TwoHoles, StandingRest, FlatWithHole}
    \cup {LateStart, EarlyEnd, HoleInSprint, Ladder, Blip}
    \cup {Restarted(HoleInSprint, at) : at \in RestartAt}

Recordings == Family \cup Damaged \cup Examples

Activities == {1, 2}
MaxSyncs == 2

StructuralTypes == {"WARMUP", "EFFORT", "RECUP", "COOLDOWN"}

\* A per-kilometre row of laps_auto (lap_type 'KM' of the schema,
\* strava.py 129), written by another tool; the detection must leave it alone.
KmRow(a, i) ==
    [activity_id |-> a, lap_index |-> i, lap_type |-> "KM",
     start_idx |-> 0, end_idx |-> 10, start_time_s |-> Some(0),
     end_time_s |-> Some(10), duration_s |-> 10, distance_m |-> Some(50),
     pace_s_per_km |-> Some(<<400, 1>>), avg_hr |-> None, avg_grade |-> None]

(***************************************************************************)
(* State.                                                                  *)
(***************************************************************************)
VARIABLES
    stream_points,  \* table stream_points: activity -> its points, by idx
    laps_auto,      \* table laps_auto as committed: a set of rows
    pc,             \* where the running call of build_intervals_structure_v4 is
    locals,         \* the locals of the running call (a Detect record and the
                    \* argument activity_id), None between calls
    conn,           \* the uncommitted view of the call's connection, or None
    last_call,      \* the last completed operation and how it ended
    syncs           \* how many times replace_stream_points has run

vars == <<stream_points, laps_auto, pc, locals, conn, last_call, syncs>>

KeyOf(r) == <<r.activity_id, r.lap_type, r.lap_index>>

\* _fetch_stream_points (strava.py 150-165): the activity's points by idx.
_fetch_stream_points(a) == stream_points[a]

\* The DELETE with 'RECUP' left out of its IN list.
DeleteStructural_without_recup(table, a) ==
    {r \in table : ~(r.activity_id = a /\ r.lap_type \in {"WARMUP", "EFFORT", "COOLDOWN"})}

\* The DELETE with 'WARMUP' left out of its IN list.
DeleteStructural_without_warmup(table, a) ==
    {r \in table : ~(r.activity_id = a /\ r.lap_type \in {"EFFORT", "RECUP", "COOLDOWN"})}

\* The DELETE without its lap_type condition.
DeleteStructural_any_type(table, a) == {r \in table : r.activity_id # a}

\* DELETE FROM laps_auto WHERE activity_id = ? AND lap_type IN (...).
DeleteStructural(table, a) ==
    {r \in table : ~(r.activity_id = a /\ r.lap_type \in StructuralTypes)}

\* The same on a connection in autocommit mode (isolation_level=None).
CommittedAfterDelete_autocommit(table, a) ==
    {r \in table : ~(r.activity_id = a /\ r.lap_type \in StructuralTypes)}

\* What a DELETE executed on a fresh sqlite3 connection does to the committed
\* table: nothing, the module opens a transaction before the statement and
\* the change stays in the connection until commit().
CommittedAfterDelete(table, a) == table

RowSet(rows) == {rows[i] : i \in 1..Len(rows)}

\* executemany(INSERT ...) violates PRIMARY KEY (activity_id, lap_type, lap_index).
KeyConflict(table, rows) ==
    \/ \E i, j \in 1..Len(rows) : i # j /\ KeyOf(rows[i]) = KeyOf(rows[j])
    \/ \E r \in table : \E i \in 1..Len(rows) : KeyOf(r) = KeyOf(rows[i])

Returned(a, value) ==
    [op |-> "build", activity_id |-> a, kind |-> "return", value |-> value]

Raised(a, value) ==
    [op |-> "build", activity_id |-> a, kind |-> "raise", value |-> value]

Init ==
    /\ syncs = 0
    /\ stream_points = [a \in Activities |-> <<>>]
    /\ laps_auto \in {{}, {KmRow(a, 1) : a \in Activities}}
    /\ pc = "idle"
    /\ locals = None
    /\ conn = None
    /\ last_call = [op |-> "none"]

\* strava_sync.replace_stream_points, called by sync() with a non-empty list.
replace_stream_points(a, k) ==
    /\ pc = "idle"
    /\ syncs < MaxSyncs
    /\ syncs' = syncs + 1
    /\ stream_points' = [stream_points EXCEPT ![a] = StreamOf(Catalogue[k])]
    /\ last_call' = [op |-> "sync", activity_id |-> a]
    /\ UNCHANGED <<laps_auto, pc, locals, conn>>

\* build_intervals_structure_v4(a) up to and including its DELETE
\* (lines 352-442 or 352-479).
build_intervals_structure_v4(a) ==
    /\ pc = "idle"
    /\ LET d == Detect(a, _fetch_stream_points(a))
       IN  IF d.path = "raise" THEN
               /\ last_call' = Raised(a, d.result)
               /\ UNCHANGED <<pc, locals, conn, laps_auto>>
           ELSE IF d.path = "insufficient" THEN
               /\ last_call' = Returned(a, d.result)
               /\ UNCHANGED <<pc, locals, conn, laps_auto>>
           ELSE
               /\ locals' = Some([activity_id |-> a] @@ d)
               /\ conn' = Some(DeleteStructural(laps_auto, a))
               /\ laps_auto' = CommittedAfterDelete(laps_auto, a)
               /\ pc' = IF d.path = "no_efforts" THEN "cleared" ELSE "deleted"
               /\ UNCHANGED last_call
    /\ UNCHANGED <<stream_points, syncs>>

\* cur.executemany(INSERT ..., rows_to_insert) (lines 480-487) succeeds.
executemany ==
    /\ pc = "deleted"
    /\ ~KeyConflict(conn[1], locals[1].rows_to_insert)
    /\ conn' = Some(conn[1] \cup RowSet(locals[1].rows_to_insert))
    /\ pc' = "inserted"
    /\ UNCHANGED <<stream_points, laps_auto, locals, last_call, syncs>>

\* The INSERT raises (a key conflict, or the storage refuses the write): the
\* exception leaves the function, the connection is dropped uncommitted and
\* SQLite rolls its transaction back.
executemany_fails ==
    /\ pc = "deleted"
    /\ conn' = None
    /\ locals' = None
    /\ pc' = "idle"
    /\ last_call' = Raised(locals[1].activity_id, [error |-> "sqlite3.Error"])
    /\ UNCHANGED <<stream_points, laps_auto, syncs>>

\* conn.commit(); conn.close(); the rest of the function touches no state
\* and returns the summary (lines 443-445 or 488-544).
commit ==
    /\ pc \in {"cleared", "inserted"}
    /\ laps_auto' = conn[1]
    /\ conn' = None
    /\ locals' = None
    /\ pc' = "idle"
    /\ last_call' = Returned(locals[1].activity_id, locals[1].result)
    /\ UNCHANGED <<stream_points, syncs>>

Next ==
    \/ \E a \in Activities : \E k \in 1..Len(Catalogue) : replace_stream_points(a, k)
    \/ \E a \in Activities : build_intervals_structure_v4(a)
    \/ executemany
    \/ executemany_fails
    \/ commit

Spec == Init /\ [][Next]_vars

(***************************************************************************)
(* The detection alone: activity 1 holds any of the recordings, no sync    *)
(* runs.                                                                   *)
(***************************************************************************)
InitDetect ==
    /\ syncs = MaxSyncs
    /\ \E shape \in Recordings :
         stream_points = [a \in Activities |-> IF a = 1 THEN StreamOf(shape) ELSE <<>>]
    /\ laps_auto \in {{}, {KmRow(a, 1) : a \in Activities}}
    /\ pc = "idle"
    /\ locals = None
    /\ conn = None
    /\ last_call = [op |-> "none"]

NextDetect ==
    \/ \E a \in Activities : build_intervals_structure_v4(a)
    \/ executemany
    \/ executemany_fails
    \/ commit

SpecDetect == InitDetect /\ [][NextDetect]_vars

(***************************************************************************)
(* The helpers alone: one call of a pure helper, its arguments drawn at    *)
(* the start and held in locals, its value recorded in last_call.          *)
(***************************************************************************)
DurationValues == {30, 31, 88, 90, 92, 180}
MaxDurations == 3

\* Durations at the edges of the tolerance: 22 = 30 - 8 and 21 = 30 - 9,
\* 57 = 67 - round(10.05) and 56; 0 and 5 make a median of 0 or of 2.5.
EdgeDurations == {0, 5, 21, 22, 30, 56, 57, 67}

\* Every ordering of the six durations, and every list of up to
\* MaxDurations of them or of the edge durations.
DurationLists ==
    {d \in [1..6 -> DurationValues] : \A i, j \in 1..6 : d[i] = d[j] => i = j}
    \cup UNION {[1..n -> DurationValues] : n \in 0..MaxDurations}
    \cup UNION {[1..n -> EdgeDurations] : n \in 0..MaxDurations}

\* Calls of nearest_cluster: the clusters of a non-empty list of up to
\* MaxDurations of SetDurations, and a duration d at, between and beyond
\* their medians (45 and 75 are midway between two of them).
SetDurations == {30, 60, 90, 180}
ProbeDurations == {0, 30, 44, 45, 46, 60, 75, 90, 135, 200}
NearestCalls ==
    {[fn |-> "nearest_cluster", clusters |-> _cluster_efforts_by_duration(q), d |-> d] :
        q \in UNION {[1..n -> SetDurations] : n \in 1..MaxDurations},
        d \in ProbeDurations}

\* Calls of _rolling_mean: every list of up to MaxSamples values, each missing
\* or one of SampleSpeeds (in half m/s), under every window of Windows.
MaxSamples == 5
SampleSpeeds == {4, 10}
Windows == {0, 1, 2, 3, 4, 9}
RollingCalls ==
    {[fn |-> "_rolling_mean", values |-> v, window |-> w] :
        v \in UNION {[1..n -> {None} \cup {Some(x) : x \in SampleSpeeds}] :
                        n \in 0..MaxSamples},
        w \in Windows}

InitHelpers ==
    /\ syncs = MaxSyncs
    /\ stream_points = [a \in Activities |-> <<>>]
    /\ laps_auto = {}
    /\ pc = "called"
    /\ locals \in {Some([fn |-> "_cluster_efforts_by_duration", durations |-> d]) :
                      d \in DurationLists}
                  \cup {Some(c) : c \in NearestCalls}
                  \cup {Some(c) : c \in RollingCalls}
    /\ conn = None
    /\ last_call = [op |-> "none"]

\* The call _cluster_efforts_by_duration(durations) returns.
cluster_efforts_by_duration_returns ==
    /\ pc = "called"
    /\ locals[1].fn = "_cluster_efforts_by_duration"
    /\ last_call' = [op |-> "_cluster_efforts_by_duration",
                     durations |-> locals[1].durations,
                     value |-> _cluster_efforts_by_duration(locals[1].durations)]
    /\ pc' = "idle"
    /\ locals' = None
    /\ UNCHANGED <<stream_points, laps_auto, conn, syncs>>

\* The call nearest_cluster(d) returns, clusters being the enclosing
\* function's list.
nearest_cluster_returns ==
    /\ pc = "called"
    /\ locals[1].fn = "nearest_cluster"
    /\ last_call' = [op |-> "nearest_cluster",
                     clusters |-> locals[1].clusters,
                     d |-> locals[1].d,
                     value |-> nearest_cluster(locals[1].clusters, locals[1].d)]
    /\ pc' = "idle"
    /\ locals' = None
    /\ UNCHANGED <<stream_points, laps_auto, conn, syncs>>

\* The call _rolling_mean(values, window) returns; `values` is the caller's
\* list after the call.
rolling_mean_returns ==
    /\ pc = "called"
    /\ locals[1].fn = "_rolling_mean"
    /\ last_call' = [op |-> "_rolling_mean",
                     given |-> locals[1].values,
                     values |-> locals[1].values,
                     window |-> locals[1].window,
                     value |-> _rolling_mean(locals[1].values, locals[1].window)]
    /\ pc' = "idle"
    /\ locals' = None
    /\ UNCHANGED <<stream_points, laps_auto, conn, syncs>>

NextHelpers ==
    \/ cluster_efforts_by_duration_returns
    \/ nearest_cluster_returns
    \/ rolling_mean_returns

SpecHelpers == InitHelpers /\ [][NextHelpers]_vars

(***************************************************************************)
(* Properties of the store (checked under Spec).                           *)
(***************************************************************************)
StructuralOf(table, a) ==
    {r \in table : r.activity_id = a /\ r.lap_type \in StructuralTypes}

\* The step is the commit that ends a call of build_intervals_structure_v4.
CommitStep == pc \in {"cleared", "inserted"} /\ pc' = "idle"

\* The step starts a call of build_intervals_structure_v4(a) and changes
\* something: the call either ends within the step or opens its transaction.
CallStep(a) ==
    /\ pc = "idle"
    /\ \/ pc' # "idle" /\ locals'[1].activity_id = a
       \/ /\ last_call' # last_call
          /\ last_call'.op = "build"
          /\ last_call'.activity_id = a

\* The call in progress directly follows a call on the same activity that
\* returned: no sync and no other call came in between.
SecondRun ==
    /\ locals # None
    /\ last_call.op = "build"
    /\ last_call.kind = "return"
    /\ last_call.activity_id = locals[1].activity_id

\* C1: a run that directly follows a returned run on the same activity, the
\* stream unchanged, finds no key in its way when it inserts, and its commit
\* leaves the persisted rows and the returned summary exactly as the first
\* run left them.
C1_Idempotent ==
    [][SecondRun =>
          /\ pc = "deleted" => ~KeyConflict(conn[1], locals[1].rows_to_insert)
          /\ CommitStep => laps_auto' = laps_auto /\ last_call' = last_call]_vars

C1_Witness ==
    /\ SecondRun
    /\ pc = "inserted"
    /\ last_call.value.effort_count = 2
    /\ conn[1] = laps_auto

\* C2: when a run that found at least one effort commits, the persisted
\* structural rows of its activity are exactly the rows it computed.
C2_NoStaleRow ==
    [][(pc = "inserted" /\ pc' = "idle" /\ last_call'.kind = "return")
          => StructuralOf(laps_auto', locals[1].activity_id)
                = RowSet(locals[1].rows_to_insert)]_vars

\* A run about to commit while the store still holds a RECUP row and an
\* EFFORT 2 row of an earlier run that this run did not compute.
C2_Witness ==
    /\ pc = "inserted"
    /\ \E r \in StructuralOf(laps_auto, locals[1].activity_id) :
          r.lap_type = "RECUP" /\ r \notin RowSet(locals[1].rows_to_insert)
    /\ \E r \in StructuralOf(laps_auto, locals[1].activity_id) :
          r.lap_type = "EFFORT" /\ r.lap_index = 2
    /\ locals[1].result.effort_count = 1

\* Every sample has the same speed, above 0.5 m/s, on at least 60 samples.
ConstantVelocity(pts) ==
    /\ Len(pts) >= 60
    /\ \A i \in 1..Len(pts) :
          /\ pts[i].velocity_m_s # None
          /\ pts[i].velocity_m_s = pts[1].velocity_m_s
          /\ pts[i].velocity_m_s[1] > 1

\* C3: a call on a constant-velocity stream takes the no-efforts path, and
\* the commit of the no-efforts path leaves no structural row of the activity,
\* adds no row to the table and returns effort_count = 0, recup_count = 0 and
\* the note "No efforts detected".
C3_NoEffortsClears ==
    [][/\ \A a \in Activities :
            (CallStep(a) /\ ConstantVelocity(stream_points[a])) => pc' = "cleared"
       /\ (pc = "cleared" /\ pc' = "idle") =>
            /\ StructuralOf(laps_auto', locals[1].activity_id) = {}
            /\ laps_auto' \subseteq laps_auto
            /\ last_call' = Returned(locals[1].activity_id,
                               [effort_count |-> 0, recup_count |-> 0,
                                note |-> "No efforts detected"])]_vars

\* The no-efforts path on a constant-velocity stream, about to clear the
\* five structural rows an earlier run left.
C3_Witness ==
    /\ pc = "cleared"
    /\ ConstantVelocity(stream_points[locals[1].activity_id])
    /\ Cardinality(StructuralOf(laps_auto, locals[1].activity_id)) = 5

\* The number of smoothed speeds that are present and above 0.5 m/s.
ValidCount(pts) ==
    LET vs == [i \in 1..Len(pts) |-> pts[i].velocity_m_s]
    IN  Len(SelectSeq(_rolling_mean(vs, smooth_window), IsValidSpeed))

\* C4: a call on a non-empty stream with fewer than 60 valid smoothed speeds
\* ends within the step, returns {note: "Not enough valid speed points",
\* effort_count: 0} and leaves the table as it was.
C4_InsufficientData ==
    [][\A a \in Activities :
         (CallStep(a) /\ Len(stream_points[a]) > 0 /\ ValidCount(stream_points[a]) < 60)
            => /\ pc' = "idle"
               /\ last_call' = Returned(a, [note |-> "Not enough valid speed points",
                                            effort_count |-> 0])
               /\ laps_auto' = laps_auto
               /\ conn' = None]_vars

\* The soft answer was given while rows of an earlier run are persisted.
C4_Witness ==
    /\ pc = "idle"
    /\ last_call.op = "build"
    /\ last_call.kind = "return"
    /\ last_call.value = [note |-> "Not enough valid speed points", effort_count |-> 0]
    /\ StructuralOf(laps_auto, last_call.activity_id) # {}

\* C5: a call on an activity without points raises the RuntimeError of
\* line 355 within the step, returns nothing, and leaves the table as it was.
C5_EmptyStreamRaises ==
    [][\A a \in Activities :
         (CallStep(a) /\ stream_points[a] = <<>>)
            => /\ pc' = "idle"
               /\ last_call'.kind = "raise"
               /\ last_call'.value =
                    [error |-> "RuntimeError: Aucun stream_points pour cette activite."]
               /\ laps_auto' = laps_auto
               /\ conn' = None]_vars

\* The error was raised while the table holds structural rows and KM rows.
C5_Witness ==
    /\ last_call.op = "build"
    /\ last_call.kind = "raise"
    /\ stream_points[last_call.activity_id] = <<>>
    /\ \E r \in laps_auto : r.lap_type = "KM"
    /\ \E r \in laps_auto : r.lap_type = "EFFORT"

\* C6: a step changes the table only inside a call, and every row it adds or
\* removes is a structural row of the activity of that call.
C6_Frame ==
    [][laps_auto' # laps_auto =>
          /\ locals # None
          /\ \A r \in (laps_auto \ laps_auto') \cup (laps_auto' \ laps_auto) :
                /\ r.activity_id = locals[1].activity_id
                /\ r.lap_type \in StructuralTypes]_vars

\* A normal-path run is about to commit; the table holds a KM row of its
\* activity and structural rows of the other activity.
C6_Witness ==
    /\ pc = "inserted"
    /\ KmRow(locals[1].activity_id, 1) \in laps_auto
    /\ \E r \in laps_auto :
          r.activity_id # locals[1].activity_id /\ r.lap_type \in StructuralTypes
    /\ conn[1] # laps_auto

\* C7: the committed table changes only in the commit step of a call, and
\* then in one piece: the old structural rows of the activity go and the
\* computed rows come together.  A failed insert therefore leaves the old rows.
C7_Atomic ==
    [][laps_auto' # laps_auto =>
          /\ CommitStep
          /\ laps_auto' = DeleteStructural(laps_auto, locals[1].activity_id)
                            \cup RowSet(locals[1].rows_to_insert)]_vars

\* The insert failed and the rows persisted before the call are still there.
C7_Witness ==
    /\ pc = "idle"
    /\ last_call.op = "build"
    /\ last_call.kind = "raise"
    /\ last_call.value = [error |-> "sqlite3.Error"]
    /\ Cardinality(StructuralOf(laps_auto, last_call.activity_id)) = 5

(***************************************************************************)
(* Properties of the segments one run emits (checked under SpecDetect),    *)
(* read off rows_to_insert while the call is in progress.                  *)
(***************************************************************************)
Emitted == RowSet(locals[1].rows_to_insert)
EmittedOf(type) == {r \in Emitted : r.lap_type = type}
LastIdx == Len(stream_points[locals[1].activity_id]) - 1

\* The rows share a sample index.
Overlap(r, q) == r.start_idx <= q.end_idx /\ q.start_idx <= r.end_idx

\* C8: every emitted segment has start_idx <= end_idx and lies within the
\* stream, and two different emitted segments never share a sample index.
C8_OrderedDisjoint ==
    locals # None =>
        /\ \A r \in Emitted : 0 <= r.start_idx /\ r.start_idx <= r.end_idx
                              /\ r.end_idx <= LastIdx
        /\ \A r, q \in Emitted : r # q => ~Overlap(r, q)
        /\ Cardinality(Emitted) = Len(locals[1].rows_to_insert)

\* A run that emits five segments: WARMUP, two EFFORTs, RECUP, COOLDOWN.
C8_Witness ==
    /\ pc = "inserted"
    /\ Cardinality(Emitted) = 5
    /\ EmittedOf("RECUP") # {}

FirstEffortStart ==
    CHOOSE x \in {r.start_idx : r \in EmittedOf("EFFORT")} :
        \A r \in EmittedOf("EFFORT") : x <= r.start_idx

LastEffortEnd ==
    CHOOSE x \in {r.end_idx : r \in EmittedOf("EFFORT")} :
        \A r \in EmittedOf("EFFORT") : r.end_idx <= x

\* C9: a run emits at most one WARMUP and one COOLDOWN, and none without an
\* EFFORT.  There is a WARMUP exactly when the first EFFORT starts after
\* index 0, and it spans 0 .. first start - 1; there is a COOLDOWN exactly
\* when the last EFFORT ends before the last index, and it spans
\* last end + 1 .. last index.
C9_WarmupCooldown ==
    locals # None =>
        /\ Cardinality(EmittedOf("WARMUP")) <= 1
        /\ Cardinality(EmittedOf("COOLDOWN")) <= 1
        /\ EmittedOf("EFFORT") = {} => Emitted = {}
        /\ EmittedOf("EFFORT") # {} =>
              /\ (EmittedOf("WARMUP") # {}) <=> (FirstEffortStart > 0)
              /\ \A w \in EmittedOf("WARMUP") :
                    w.start_idx = 0 /\ w.end_idx = FirstEffortStart - 1
              /\ (EmittedOf("COOLDOWN") # {}) <=> (LastEffortEnd < LastIdx)
              /\ \A c \in EmittedOf("COOLDOWN") :
                    c.start_idx = LastEffortEnd + 1 /\ c.end_idx = LastIdx

\* A run whose effort reaches the last sample: a WARMUP and no COOLDOWN.
C9_Witness ==
    /\ pc = "inserted"
    /\ EmittedOf("WARMUP") # {}
    /\ EmittedOf("COOLDOWN") = {}
    /\ LastEffortEnd = LastIdx

\* EFFORT rows e, f follow each other in time: no EFFORT starts in between.
Consecutive(e, f) ==
    /\ e.start_idx < f.start_idx
    /\ ~\E g \in EmittedOf("EFFORT") :
          e.start_idx < g.start_idx /\ g.start_idx < f.start_idx

ConsecutiveEfforts ==
    {p \in EmittedOf("EFFORT") \X EmittedOf("EFFORT") : Consecutive(p[1], p[2])}

ConsecutiveGaps ==
    {<<p[1].end_idx + 1, p[2].start_idx - 1>> : p \in ConsecutiveEfforts}

\* C10: the RECUP rows span exactly the gaps between consecutive EFFORT rows,
\* one row per pair of consecutive efforts and no other, and no RECUP shares
\* an index with an EFFORT.
C10_RecupGaps ==
    locals # None =>
        /\ {<<r.start_idx, r.end_idx>> : r \in EmittedOf("RECUP")} = ConsecutiveGaps
        /\ Cardinality(EmittedOf("RECUP")) = Cardinality(ConsecutiveGaps)
        /\ EmittedOf("EFFORT") # {} =>
              Cardinality(EmittedOf("RECUP")) = Cardinality(EmittedOf("EFFORT")) - 1
        /\ \A r \in EmittedOf("RECUP") : \A e \in EmittedOf("EFFORT") : ~Overlap(r, e)

\* Two efforts separated by the shortest gap the merge leaves: a RECUP of
\* merge_gap_s + 1 samples.
C10_Witness ==
    /\ pc = "inserted"
    /\ Cardinality(EmittedOf("EFFORT")) = 2
    /\ \E r \in EmittedOf("RECUP") : r.end_idx - r.start_idx = merge_gap_s

(***************************************************************************)
(* The specification's worked example of a spike (checked under            *)
(* SpecDetect).                                                            *)
(***************************************************************************)
\* pts is flat at 2.5 m/s except samples 100-130 at 5.0 m/s, continues after
\* the spike, and has time and distance on every sample.
IsSpikeStream(pts) ==
    /\ Len(pts) > 131
    /\ \A i \in 1..Len(pts) :
          /\ pts[i].velocity_m_s = Some(IF 100 <= i - 1 /\ i - 1 <= 130 THEN 10 ELSE 5)
          /\ pts[i].time_s # None
          /\ pts[i].distance_m # None

SpikeRun == locals # None /\ IsSpikeStream(stream_points[locals[1].activity_id])

\* C11: on the spike stream the run yields exactly one EFFORT whose start and
\* end are within smooth_window / 2 of 100 and 130, one WARMUP [0, 99], no
\* RECUP, and one COOLDOWN starting at 131.
C11_SpikeDetected ==
    SpikeRun =>
        /\ Cardinality(EmittedOf("EFFORT")) = 1
        /\ \A e \in EmittedOf("EFFORT") :
              /\ 2 * Abs(e.start_idx - 100) <= smooth_window
              /\ 2 * Abs(e.end_idx - 130) <= smooth_window
        /\ Cardinality(EmittedOf("WARMUP")) = 1
        /\ \A w \in EmittedOf("WARMUP") : w.start_idx = 0 /\ w.end_idx = 99
        /\ EmittedOf("RECUP") = {}
        /\ Cardinality(EmittedOf("COOLDOWN")) = 1
        /\ \A c \in EmittedOf("COOLDOWN") : c.start_idx = 131

\* What the run does on the spike stream: more than half of the smoothed
\* speeds equal the median, the MAD is 0, every z is 0 and no effort is found.
C11_Witness ==
    /\ SpikeRun
    /\ pc = "cleared"
    /\ Emitted = {}
    /\ locals[1].result.note = "No efforts detected"
    /\ \A i \in 1..Len(locals[1].z) : locals[1].z[i] = Some(<<0, 1>>)

(***************************************************************************)
(* Merging of accepted candidates (checked under SpecDetect).              *)
(***************************************************************************)
\* The index gap between accepted candidates k and k + 1.
RawGap(k) == locals[1].eff_raw[k + 1][1] - locals[1].eff_raw[k][2] - 1

\* Candidates i..j form one maximal chain of gaps <= merge_gap_s.
MergedChain(i, j) ==
    /\ \A k \in i..(j - 1) : RawGap(k) <= merge_gap_s
    /\ i = 1 \/ RawGap(i - 1) > merge_gap_s
    /\ j = Len(locals[1].eff_raw) \/ RawGap(j) > merge_gap_s

\* C12: the EFFORT blocks are the accepted candidates joined exactly where the
\* index gap next.start - prev.end - 1 is <= merge_gap_s, each block running
\* from its first candidate's start to its last candidate's end; candidates
\* further apart stay in distinct blocks with one RECUP filling the gap.
C12_MergeAtGap ==
    locals # None =>
        LET raw == locals[1].eff_raw
            blk == locals[1].eff_blocks
        IN  /\ {blk[i] : i \in 1..Len(blk)}
                 = {<<raw[q[1]][1], raw[q[2]][2]>> :
                       q \in {c \in (1..Len(raw)) \X (1..Len(raw)) :
                                 c[1] <= c[2] /\ MergedChain(c[1], c[2])}}
            /\ \/ raw = <<>> /\ blk = <<>>
               \/ Len(blk) = 1 + Cardinality({k \in 1..(Len(raw) - 1) :
                                                 RawGap(k) > merge_gap_s})
            /\ {<<e.start_idx, e.end_idx>> : e \in EmittedOf("EFFORT")}
                 = {blk[i] : i \in 1..Len(blk)}
            /\ \A k \in 1..(Len(raw) - 1) :
                  RawGap(k) > merge_gap_s =>
                     Cardinality({r \in EmittedOf("RECUP") :
                                     /\ r.start_idx = raw[k][2] + 1
                                     /\ r.end_idx = raw[k + 1][1] - 1}) = 1

\* One run with two candidates merge_gap_s apart, merged, and two candidates
\* merge_gap_s + 1 apart, kept as two EFFORTs with a RECUP between them.
C12_Witness ==
    /\ pc = "inserted"
    /\ \E k \in 1..(Len(locals[1].eff_raw) - 1) : RawGap(k) = merge_gap_s
    /\ \E k \in 1..(Len(locals[1].eff_raw) - 1) : RawGap(k) = merge_gap_s + 1
    /\ Len(locals[1].eff_raw) = 4
    /\ Cardinality(EmittedOf("EFFORT")) = 3
    /\ Cardinality(EmittedOf("RECUP")) = 2

(***************************************************************************)
(* The candidate filter (checked under SpecDetect).                        *)
(***************************************************************************)
RunPts == stream_points[locals[1].activity_id]

\* The label blocks of the run that are effort candidates.
Candidates ==
    {b \in {locals[1].blocks[i] : i \in 1..Len(locals[1].blocks)} : b[1] = "EFFORT"}

TimeAt(i) == RunPts[i + 1].time_s
DistAt(i) == RunPts[i + 1].distance_m

\* Candidate b has both end times and lasts less than min_eff_s.
TooShort(b) ==
    /\ TimeAt(b[2]) # None /\ TimeAt(b[3]) # None
    /\ TimeAt(b[3])[1] - TimeAt(b[2])[1] < min_eff_s

RawSet == {locals[1].eff_raw[i] : i \in 1..Len(locals[1].eff_raw)}

\* C13: a candidate block lasting less than min_eff_s is not accepted and no
\* EFFORT row is emitted for it, whatever its z-scores; every accepted
\* candidate lasts at least min_eff_s.
C13_ShortRejected ==
    locals # None =>
        /\ \A b \in Candidates :
              TooShort(b) =>
                 /\ <<b[2], b[3]>> \notin RawSet
                 /\ \A e \in EmittedOf("EFFORT") :
                       e.start_idx # b[2] /\ e.end_idx # b[3]
        /\ \A c \in RawSet : TimeAt(c[2])[1] - TimeAt(c[1])[1] >= min_eff_s

\* A 10-sample sprint: its candidate block lasts min_eff_s - 1 seconds, every
\* z of the block's first half is at least 1.0, and the run finds no effort.
C13_Witness ==
    /\ pc = "cleared"
    /\ \E b \in Candidates :
          /\ TooShort(b)
          /\ TimeAt(b[3])[1] - TimeAt(b[2])[1] = min_eff_s - 1
          /\ DistAt(b[3])[1] - DistAt(b[2])[1] >= min_eff_dist_m
          /\ GeOn(locals[1].z[b[2] + 1][1])
    /\ Emitted = {}

(***************************************************************************)
(* Clustering of effort durations (checked under SpecHelpers).             *)
(***************************************************************************)
ClusterReturned == last_call.op = "_cluster_efforts_by_duration"

\* The list holds each of 90, 92, 88, 30, 31, 180 once, in any order.
IsExampleDurations(d) ==
    Len(d) = 6 /\ {d[i] : i \in 1..6} = {90, 92, 88, 30, 31, 180}

\* C14: clustering the durations 90, 92, 88, 30, 31, 180 yields exactly three
\* clusters, in descending order, of median_s 180, 90, 30 and counts 1, 3, 2.
C14_ClusterExample ==
    (ClusterReturned /\ IsExampleDurations(last_call.durations)) =>
        /\ Len(last_call.value) = 3
        /\ [i \in 1..3 |-> last_call.value[i].median_s] = <<180, 90, 30>>
        /\ [i \in 1..3 |-> last_call.value[i].count] = <<1, 3, 2>>
        /\ [i \in 1..3 |-> last_call.value[i].members] =
              << <<180>>, <<88, 90, 92>>, <<30, 31>> >>

C14_Witness ==
    /\ ClusterReturned
    /\ last_call.durations = <<90, 92, 88, 30, 31, 180>>
    /\ Len(last_call.value) = 3

(***************************************************************************)
(* The degenerate baseline (checked under SpecDetect).                     *)
(***************************************************************************)
\* C15: when the MAD of the valid smoothed speeds is 0, the z-score of every
\* sample that has a smoothed speed is exactly 0 (a sample without one keeps
\* a null z), the run does not fail, and it finds no effort.
C15_DegenerateBaseline ==
    (locals # None /\ locals[1].v_mad = 0) =>
        /\ \A i \in 1..Len(locals[1].z) :
              IF locals[1].vs_s[i] = None THEN locals[1].z[i] = None
              ELSE locals[1].z[i] = Some(<<0, 1>>)
        /\ locals[1].path = "no_efforts"
        /\ Emitted = {}

\* A run with MAD = 0 in which a sample whose smoothed speed is off the
\* median still gets z = 0.
C15_Witness ==
    /\ pc = "cleared"
    /\ locals[1].v_mad = 0
    /\ \E i \in 1..Len(locals[1].z) :
          /\ locals[1].vs_s[i] # None
          /\ 2 * locals[1].vs_s[i][1] > locals[1].v_med
          /\ locals[1].z[i] = Some(<<0, 1>>)

(***************************************************************************)
(* Missing sample fields (checked under SpecDetect).                       *)
(***************************************************************************)
\* The step ends a call of build_intervals_structure_v4 by an exception.
CallRaises ==
    /\ last_call' # last_call
    /\ last_call'.op = "build"
    /\ last_call'.kind = "raise"

\* Field f is missing on every sample of the row's index range.
AllMissing(r, f) ==
    \A i \in r.start_idx..r.end_idx : RunPts[i + 1][f] = None

\* The metrics of an emitted row are numbers or None, None exactly where the
\* samples leave nothing to compute from.
MetricsDegrade(r) ==
    /\ r.duration_s >= 0
    /\ r.distance_m = None
         <=> (DistAt(r.start_idx) = None \/ DistAt(r.end_idx) = None)
    /\ r.distance_m # None => r.distance_m[1] >= 0
    /\ r.pace_s_per_km = None
         <=> (r.distance_m = None \/ r.distance_m[1] = 0)
    /\ r.avg_hr = None <=> AllMissing(r, "heartrate_bpm")
    /\ r.avg_grade = None <=> AllMissing(r, "grade")

\* C16: on a non-empty stream, whichever of time_s, distance_m, velocity_m_s,
\* heartrate_bpm and grade are missing on whichever samples, the detection
\* itself never raises: a call ends by an exception only on an empty stream
\* or when the storage refuses the insert; missing values only turn metrics
\* into None or 0.
C16_NullsNeverCrash ==
    /\ [](locals # None => \A r \in Emitted : MetricsDegrade(r))
    /\ [][CallRaises =>
             \/ stream_points[last_call'.activity_id] = <<>>
             \/ /\ pc = "deleted"
                /\ last_call'.value = [error |-> "sqlite3.Error"]
                /\ ~KeyConflict(conn[1], locals[1].rows_to_insert)]_vars

\* A run on a recording with time and distance missing on the first and last
\* sample and no heart rate or grade at all has returned; its WARMUP row has
\* an index-count duration and no distance, pace, heart rate or grade.
C16_Witness ==
    /\ pc = "idle"
    /\ last_call.op = "build"
    /\ last_call.kind = "return"
    /\ last_call.value.effort_count = 1
    /\ \E r \in laps_auto :
          /\ r.lap_type = "WARMUP"
          /\ r.start_time_s = None
          /\ r.duration_s = r.end_idx - r.start_idx
          /\ r.distance_m = None
          /\ r.pace_s_per_km = None
          /\ r.avg_hr = None
          /\ r.avg_grade = None

(***************************************************************************)
(* What the caller gets back (checked under Spec).                         *)
(***************************************************************************)
\* The step ends a call of build_intervals_structure_v4 on a non-empty stream.
EndsCallOnPoints ==
    /\ last_call' # last_call
    /\ last_call'.op = "build"
    /\ stream_points[last_call'.activity_id] # <<>>

ParamNames ==
    {"smooth_window", "z_eff_on", "z_eff_off", "min_eff_s", "min_eff_dist_m",
     "merge_gap_s"}

LabelBefore(i) == IF i = 1 THEN "NEUTRAL" ELSE locals[1].labels[i - 1]

\* z[i] = num/den with den > 0: at least 1.0, at most 0.4, strictly between.
ZHigh(i) == locals[1].z[i][1][1] >= locals[1].z[i][1][2]
ZLow(i) == 5 * locals[1].z[i][1][1] <= 2 * locals[1].z[i][1][2]
ZBetween(i) == locals[1].z[i] # None /\ ~ZHigh(i) /\ ~ZLow(i)

\* C18: the labeller starts in NEUTRAL; the label of each sample is the state
\* after: null z -> NEUTRAL; NEUTRAL and z >= 1.0 -> EFFORT; EFFORT and
\* z <= 0.4 -> NEUTRAL; otherwise unchanged.  The blocks are the maximal runs
\* of equal labels and cover 0..last_idx.
C18_Hysteresis ==
    locals # None =>
        LET z == locals[1].z
            labels == locals[1].labels
            blocks == locals[1].blocks
            n == Len(RunPts)
        IN  /\ Len(labels) = n /\ Len(z) = n
            /\ \A i \in 1..n :
                  labels[i] =
                     IF z[i] = None THEN "NEUTRAL"
                     ELSE IF LabelBefore(i) = "NEUTRAL" /\ ZHigh(i) THEN "EFFORT"
                     ELSE IF LabelBefore(i) = "EFFORT" /\ ZLow(i) THEN "NEUTRAL"
                     ELSE LabelBefore(i)
            /\ blocks # <<>>
            /\ blocks[1][2] = 0
            /\ blocks[Len(blocks)][3] = n - 1
            /\ \A k \in 1..Len(blocks) :
                  /\ blocks[k][2] <= blocks[k][3]
                  /\ \A i \in blocks[k][2]..blocks[k][3] : labels[i + 1] = blocks[k][1]
            /\ \A k \in 1..(Len(blocks) - 1) :
                  /\ blocks[k + 1][2] = blocks[k][3] + 1
                  /\ blocks[k + 1][1] # blocks[k][1]

\* One run in which a z strictly between 0.4 and 1.0 keeps EFFORT, another
\* keeps NEUTRAL, and a null z forces NEUTRAL right after an EFFORT sample.
C18_Witness ==
    /\ locals # None
    /\ \E i \in 2..Len(locals[1].z) :
          ZBetween(i) /\ LabelBefore(i) = "EFFORT" /\ locals[1].labels[i] = "EFFORT"
    /\ \E i \in 2..Len(locals[1].z) :
          ZBetween(i) /\ LabelBefore(i) = "NEUTRAL" /\ locals[1].labels[i] = "NEUTRAL"
    /\ \E i \in 2..Len(locals[1].z) :
          locals[1].z[i] = None /\ LabelBefore(i) = "EFFORT"
          /\ locals[1].labels[i] = "NEUTRAL"

(***************************************************************************)
(* Acceptance of candidates (checked under SpecDetect).                    *)
(***************************************************************************)
\* Candidate b has time and distance at both ends, lasts at least min_eff_s
\* and covers at least min_eff_dist_m.
MeetsMinimums(b) ==
    /\ TimeAt(b[2]) # None /\ TimeAt(b[3]) # None
    /\ DistAt(b[2]) # None /\ DistAt(b[3]) # None
    /\ TimeAt(b[3])[1] - TimeAt(b[2])[1] >= min_eff_s
    /\ DistAt(b[3])[1] - DistAt(b[2])[1] >= min_eff_dist_m

\* C19: a candidate EFFORT block is accepted if and only if time_s and
\* distance_m are present at both of its ends, its duration is at least
\* min_eff_s and its distance at least min_eff_dist_m; a candidate with a
\* missing end time or distance is dropped, however many samples it spans.
C19_AcceptedIff ==
    locals # None =>
        /\ RawSet = {<<b[2], b[3]>> : b \in {c \in Candidates : MeetsMinimums(c)}}
        /\ Len(locals[1].eff_raw) = Cardinality(RawSet)
        /\ \A i \in 1..(Len(locals[1].eff_raw) - 1) :
              locals[1].eff_raw[i][2] < locals[1].eff_raw[i + 1][1]

\* A candidate of at least min_eff_s + 1 samples and enough distance whose
\* start time is missing: it is dropped and the run finds no effort.
C19_Witness ==
    /\ pc = "cleared"
    /\ \E b \in Candidates :
          /\ TimeAt(b[2]) = None
          /\ b[3] - b[2] >= min_eff_s
          /\ DistAt(b[2]) # None /\ DistAt(b[3]) # None
          /\ DistAt(b[3])[1] - DistAt(b[2])[1] >= min_eff_dist_m
    /\ locals[1].eff_raw = <<>>

(***************************************************************************)
(* Metrics of the emitted rows (checked under SpecDetect).                 *)
(***************************************************************************)
\* Both end times, both end distances of row r are present.
HasTimes(r) == TimeAt(r.start_idx) # None /\ TimeAt(r.end_idx) # None
HasDists(r) == DistAt(r.start_idx) # None /\ DistAt(r.end_idx) # None

\* The row's pace is duration_s / distance_m * 1000, the distance being held
\* in half metres and the pace as a fraction <<num, den>>.
PaceIsRatio(r) ==
    /\ r.pace_s_per_km # None
    /\ r.pace_s_per_km[1][2] > 0
    /\ r.pace_s_per_km[1][1] * r.distance_m[1]
         = r.duration_s * 2000 * r.pace_s_per_km[1][2]

\* C20: for every emitted row [s, e]: duration_s is max(0, t[e] - t[s]) when
\* both end times are present and max(0, e - s) otherwise, never negative;
\* distance_m is max(0, d[e] - d[s]) when both end distances are present and
\* None otherwise; pace_s_per_km is duration_s / distance_m * 1000 when
\* distance_m > 0 and None when distance_m is None or not positive.
C20_RowMetrics ==
    locals # None =>
        \A r \in Emitted :
            /\ r.duration_s =
                  IF HasTimes(r)
                  THEN Max(0, TimeAt(r.end_idx)[1] - TimeAt(r.start_idx)[1])
                  ELSE Max(0, r.end_idx - r.start_idx)
            /\ r.duration_s >= 0
            /\ r.distance_m =
                  IF HasDists(r)
                  THEN Some(Max(0, DistAt(r.end_idx)[1] - DistAt(r.start_idx)[1]))
                  ELSE None
            /\ IF r.distance_m # None /\ r.distance_m[1] > 0
               THEN PaceIsRatio(r)
               ELSE r.pace_s_per_km = None
            /\ r.start_time_s = TimeAt(r.start_idx)
            /\ r.end_time_s = TimeAt(r.end_idx)

\* A recording sampled every 2 s whose first sample has no time and no
\* distance: the WARMUP row counts samples and has no distance or pace, the
\* EFFORT row counts seconds (twice its samples) and has a pace.
C20_Witness ==
    /\ pc = "inserted"
    /\ \E w \in EmittedOf("WARMUP") :
          /\ ~HasTimes(w) /\ ~HasDists(w)
          /\ w.duration_s = w.end_idx - w.start_idx
          /\ w.pace_s_per_km = None
    /\ \E e \in EmittedOf("EFFORT") :
          /\ e.duration_s = 2 * (e.end_idx - e.start_idx)
          /\ PaceIsRatio(e)

\* Two sprints with a standing rest: the RECUP row covers no distance and has
\* no pace.
C20_StandingRecup ==
    /\ pc = "inserted"
    /\ \E r \in EmittedOf("RECUP") :
          r.distance_m = Some(0) /\ r.pace_s_per_km = None /\ r.duration_s > 0

(***************************************************************************)
(* Numbering of the emitted rows (checked under SpecDetect).               *)
(***************************************************************************)
\* C21: within one run the lap_index values of each lap_type are 1..k without
\* gaps, in start_idx order for EFFORT and RECUP and equal to 1 for WARMUP and
\* COOLDOWN; no two emitted rows share (activity_id, lap_type, lap_index).
C21_LapIndex ==
    locals # None =>
        /\ \A type \in StructuralTypes :
              {r.lap_index : r \in EmittedOf(type)} = 1..Cardinality(EmittedOf(type))
        /\ \A type \in {"EFFORT", "RECUP"} :
              \A r, q \in EmittedOf(type) :
                 r.lap_index < q.lap_index <=> r.start_idx < q.start_idx
        /\ \A r \in EmittedOf("WARMUP") \cup EmittedOf("COOLDOWN") : r.lap_index = 1
        /\ \A r, q \in Emitted : KeyOf(r) = KeyOf(q) => r = q
        /\ \A r \in Emitted : r.activity_id = locals[1].activity_id
        /\ Cardinality(Emitted) = Len(locals[1].rows_to_insert)

\* A run with three EFFORT rows numbered 1, 2, 3 and two RECUP rows 1, 2.
C21_Witness ==
    /\ pc = "inserted"
    /\ {r.lap_index : r \in EmittedOf("EFFORT")} = {1, 2, 3}
    /\ {r.lap_index : r \in EmittedOf("RECUP")} = {1, 2}
    /\ \E r \in EmittedOf("WARMUP") : r.lap_index = 1
    /\ \E r \in EmittedOf("COOLDOWN") : r.lap_index = 1

(***************************************************************************)
(* _cluster_efforts_by_duration on arbitrary lists (checked under          *)
(* SpecHelpers).                                                           *)
(***************************************************************************)
\* How many times v occurs in the sequence q.
Occurrences(q, v) == Cardinality({i \in 1..Len(q) : q[i] = v})

\* round(0.15 * seed): the nearest integer, a tie going to the even one.
RoundedShare(seed) ==
    CHOOSE r \in 0..seed :
        \/ Abs(20 * r - 3 * seed) < 10
        \/ Abs(20 * r - 3 * seed) = 10 /\ r % 2 = 0

\* C22: for any list of durations the call returns, and its clusters
\* partition the list: every duration occurs in the members of exactly one
\* cluster (as often as in the list), count = len(members), the counts sum to
\* the number of durations, and every member lies within
\* max(8, round(0.15 * seed)) of the largest member of its cluster.
C22_Partition ==
    ClusterReturned =>
        LET d == last_call.durations
            cl == last_call.value
        IN  /\ \A i \in 1..Len(d) :
                  /\ Cardinality({k \in 1..Len(cl) : Occurrences(cl[k].members, d[i]) > 0}) = 1
                  /\ \E k \in 1..Len(cl) :
                        Occurrences(cl[k].members, d[i]) = Occurrences(d, d[i])
            /\ \A k \in 1..Len(cl) :
                  /\ cl[k].count = Len(cl[k].members)
                  /\ cl[k].count >= 1
                  /\ \A j \in 1..Len(cl[k].members) :
                        /\ Occurrences(d, cl[k].members[j]) > 0
                        /\ LET seed == Largest(cl[k].members)
                           IN  seed - cl[k].members[j] <= Max(8, RoundedShare(seed))
            /\ SumSeq([k \in 1..Len(cl) |-> cl[k].count], 1, Len(cl)) = Len(d)

\* A list with a repeated duration split into two clusters at the edge of the
\* tolerance: 30 and 22 together, 21 apart.
C22_Witness ==
    /\ ClusterReturned
    /\ last_call.durations = <<22, 30, 21>>
    /\ Len(last_call.value) = 2
    /\ last_call.value[1].members = <<22, 30>>
    /\ last_call.value[2].members = <<21>>

(***************************************************************************)
(* nearest_cluster (checked under SpecHelpers).                            *)
(***************************************************************************)
NearestReturned == last_call.op = "nearest_cluster"

\* |d - median_s| of the cluster with 0-based index k.
ErrorTo(clusters, d, k) == Abs(d - clusters[k + 1].median_s)

\* C23: nearest_cluster(d) returns the index of a cluster minimising
\* |d - median_s| over the clusters, which are in descending-median order; of
\* equally near clusters it returns the earlier one, of the longer median.
C23_Nearest ==
    NearestReturned =>
        LET cl == last_call.clusters
            d == last_call.d
            k == last_call.value
        IN  /\ \A i, j \in 1..Len(cl) : i < j => cl[i].median_s > cl[j].median_s
            /\ k \in 0..(Len(cl) - 1)
            /\ \A j \in 0..(Len(cl) - 1) : ErrorTo(cl, d, k) <= ErrorTo(cl, d, j)
            /\ \A j \in 0..(Len(cl) - 1) :
                  (j # k /\ ErrorTo(cl, d, j) = ErrorTo(cl, d, k)) =>
                      /\ k < j
                      /\ cl[k + 1].median_s > cl[j + 1].median_s

\* d = 75 is 15 away from the medians 90 and 60: the call returns the
\* cluster of median 90.
C23_Witness ==
    /\ NearestReturned
    /\ last_call.d = 75
    /\ \E i, j \in 1..Len(last_call.clusters) :
          /\ last_call.clusters[i].median_s = 90
          /\ last_call.clusters[j].median_s = 60
          /\ last_call.value = i - 1

(***************************************************************************)
(* The sets of the summary (checked under SpecDetect).                     *)
(***************************************************************************)
\* The run took the normal path: its summary holds clusters and sets.
NormalRun == locals # None /\ locals[1].path = "ok"

SetCounts == [k \in 1..Len(locals[1].result.sets) |-> locals[1].result.sets[k].count]

\* Position in seq of the first effort of the k-th sets entry.
RunStart(k) == 1 + SumSeq(SetCounts, 1, k - 1)

\* The EFFORT row of lap_index i.
EffortRow(i) == CHOOSE r \in EmittedOf("EFFORT") : r.lap_index = i

\* C24: sets is the run-length encoding of the chronological sequence of
\* nearest-cluster ids of the final efforts: one entry per maximal run, so
\* consecutive entries differ in cluster and in median_s, every count is >= 1
\* and the counts sum to effort_count.
C24_RunLength ==
    NormalRun =>
        LET seq == locals[1].seq
            sets == locals[1].result.sets
            cl == locals[1].result.clusters
        IN  /\ Len(seq) = locals[1].result.effort_count
            /\ \A i \in 1..Len(seq) :
                  /\ seq[i] \in 0..(Len(cl) - 1)
                  /\ \A j \in 0..(Len(cl) - 1) :
                        ErrorTo(cl, EffortRow(i).duration_s, seq[i])
                           <= ErrorTo(cl, EffortRow(i).duration_s, j)
            /\ \A k \in 1..Len(sets) :
                  /\ sets[k].count >= 1
                  /\ \A i \in RunStart(k)..(RunStart(k) + sets[k].count - 1) :
                        /\ i <= Len(seq)
                        /\ cl[seq[i] + 1].median_s = sets[k].median_s
                        /\ seq[i] = seq[RunStart(k)]
            /\ \A k \in 1..(Len(sets) - 1) :
                  /\ sets[k].median_s # sets[k + 1].median_s
                  /\ seq[RunStart(k)] # seq[RunStart(k + 1)]
            /\ SumSeq(SetCounts, 1, Len(sets)) = locals[1].result.effort_count

\* Three efforts, the last two of one cluster: two sets entries, counts 1, 2.
C24_Witness ==
    /\ NormalRun
    /\ pc = "inserted"
    /\ locals[1].seq = <<0, 1, 1>>
    /\ SetCounts = <<1, 2>>
    /\ locals[1].result.sets[1].median_s > locals[1].result.sets[2].median_s

(***************************************************************************)
(* _rolling_mean (checked under SpecHelpers).  Means are held scaled by    *)
(* MeanDen.                                                                *)
(***************************************************************************)
RollingReturned == last_call.op = "_rolling_mean"

\* The positions (1-based) of the window of position i.
WindowOf(i, n, window) == Max(1, i - window \div 2)..Min(n, i + window \div 2)

\* The sum of the values present in the window W.
WindowSum(values, W) ==
    SumSeq([j \in 1..Len(values) |->
              IF j \in W /\ values[j] # None THEN values[j][1] ELSE 0],
           1, Len(values))

\* C25: for window > 1 the result has the length of the input and its value
\* at i is the mean of the non-null inputs at max(0, i - window//2) ..
\* min(n-1, i + window//2), null exactly when all of them are null; for
\* window <= 1 the result equals the input; the input list is left as given.
C25_RollingMean ==
    RollingReturned =>
        LET values == last_call.given
            n == Len(values)
            w == last_call.window
            out == last_call.value
        IN  /\ Len(out) = n
            /\ last_call.values = last_call.given
            /\ w > 1 =>
                  \A i \in 1..n :
                     LET some == {j \in WindowOf(i, n, w) : values[j] # None}
                     IN  /\ out[i] = None <=> some = {}
                         /\ out[i] # None =>
                               out[i][1] * Cardinality(some)
                                  = MeanDen * WindowSum(values, WindowOf(i, n, w))
            /\ w <= 1 =>
                  \A i \in 1..n :
                     /\ out[i] = None <=> values[i] = None
                     /\ out[i] # None => out[i][1] = MeanDen * values[i][1]

\* Window 3 on <<2.0, null, 5.0, null, null>>: the means are 2.0, 3.5, 5.0,
\* 5.0 and null, the first over a window clipped at the edge.
C25_Witness ==
    /\ RollingReturned
    /\ last_call.window = 3
    /\ last_call.given = <<Some(4), None, Some(10), None, None>>
    /\ last_call.value = <<Some(4 * MeanDen), Some(7 * MeanDen), Some(10 * MeanDen),
                           Some(10 * MeanDen), None>>

(***************************************************************************)
(* Coverage of the stream by the emitted segments (checked under           *)
(* SpecDetect).                                                            *)
(***************************************************************************)
\* The emitted rows whose span holds sample index i.
Covering(i) == {r \in Emitted : r.start_idx <= i /\ i <= r.end_idx}

\* C26: when a run detects at least one effort, the emitted WARMUP, EFFORT,
\* RECUP and COOLDOWN segments cover every sample index 0..last_idx exactly
\* once, single-sample spans before the first and after the last effort
\* included.
C26_Coverage ==
    NormalRun =>
        /\ locals[1].result.effort_count >= 1
        /\ \A i \in 0..LastIdx : Cardinality(Covering(i)) = 1
        /\ \A r \in Emitted :
              /\ r.lap_type \in StructuralTypes
              /\ 0 <= r.start_idx /\ r.start_idx <= r.end_idx /\ r.end_idx <= LastIdx

\* The first effort starts at index 1: the WARMUP row spans the single
\* sample 0.
C26_Witness ==
    /\ NormalRun
    /\ pc = "inserted"
    /\ \E r \in EmittedOf("WARMUP") : r.start_idx = 0 /\ r.end_idx = 0
    /\ \E r \in EmittedOf("EFFORT") : r.start_idx = 1

\* The last effort ends one sample before the end: the COOLDOWN row spans the
\* single last sample.
C26_SingleSampleCooldown ==
    /\ NormalRun
    /\ pc = "inserted"
    /\ \E r \in EmittedOf("COOLDOWN") : r.start_idx = LastIdx /\ r.end_idx = LastIdx

(***************************************************************************)
(* Minimums of the emitted efforts (checked under SpecDetect).             *)
(***************************************************************************)
\* time_s and distance_m, where present, never decrease along the stream.
Monotonic ==
    \A i, j \in 0..LastIdx :
        i < j =>
            /\ (TimeAt(i) # None /\ TimeAt(j) # None) => TimeAt(i)[1] <= TimeAt(j)[1]
            /\ (DistAt(i) # None /\ DistAt(j) # None) => DistAt(i)[1] <= DistAt(j)[1]

\* Row r meets both minimums of the candidate filter.
AboveMinimums(r) ==
    /\ r.duration_s >= min_eff_s
    /\ r.distance_m # None
    /\ r.distance_m[1] >= min_eff_dist_m

\* C27: for every non-empty stream, monotonic or not, every emitted EFFORT
\* segment, one produced by merging included, has duration_s >= min_eff_s and
\* distance_m >= min_eff_dist_m.
C27_EffortMinimums ==
    locals # None => \A r \in EmittedOf("EFFORT") : AboveMinimums(r)

\* Two accepted candidates around a restart of the clock and the odometer are
\* merged into one EFFORT row of duration 0 and distance 0.
C27_Witness ==
    /\ pc = "inserted"
    /\ ~Monotonic
    /\ Len(locals[1].eff_raw) = 2
    /\ \A i \in 1..2 :
          MeetsMinimums(<<"EFFORT", locals[1].eff_raw[i][1], locals[1].eff_raw[i][2]>>)
    /\ \E r \in EmittedOf("EFFORT") :
          /\ r.start_idx = locals[1].eff_raw[1][1]
          /\ r.end_idx = locals[1].eff_raw[2][2]
          /\ r.duration_s = 0
          /\ r.distance_m = Some(0)

\* On streams whose time and distance never decrease the minimums hold for
\* every EFFORT row.
C27_MonotonicStreams ==
    (locals # None /\ Monotonic) => \A r \in EmittedOf("EFFORT") : AboveMinimums(r)

(***************************************************************************)
(* Nearest cluster against cluster membership (checked under SpecDetect).  *)
(***************************************************************************)
\* The sum of the counts of the sets entries carrying the median m.
SetTotal(m) ==
    SumSeq([k \in 1..Len(locals[1].result.sets) |->
              IF locals[1].result.sets[k].median_s = m
              THEN locals[1].result.sets[k].count ELSE 0],
           1, Len(locals[1].result.sets))

\* C28: for every final effort the cluster nearest_cluster assigns to its
\* duration is the cluster whose members hold that duration; so for each
\* cluster the counts of the sets entries referring to it sum to its count.
C28_NearestIsOwn ==
    NormalRun =>
        LET cl == locals[1].result.clusters
        IN  /\ \A i \in 1..Len(locals[1].seq) :
                  Occurrences(cl[locals[1].seq[i] + 1].members, EffortRow(i).duration_s) > 0
            /\ \A c \in 1..Len(cl) : SetTotal(cl[c].median_s) = cl[c].count

\* Efforts of 37 s, 29 s and 28 s: the clusters are {29, 37} of median 33
\* and {28}, but 29 is nearer to 28 than to 33, so the sets count one effort
\* for the first cluster and two for the second.
C28_Witness ==
    /\ NormalRun
    /\ pc = "inserted"
    /\ {r.lap_index : r \in EmittedOf("EFFORT")} = 1..3
    /\ [i \in 1..3 |-> EffortRow(i).duration_s] = <<37, 29, 28>>
    /\ Len(locals[1].result.clusters) = 2
    /\ locals[1].result.clusters[1] = [median_s |-> 33, count |-> 2, members |-> <<29, 37>>]
    /\ locals[1].result.clusters[2] = [median_s |-> 28, count |-> 1, members |-> <<28>>]
    /\ locals[1].seq = <<0, 1, 1>>
    /\ locals[1].result.sets =
          <<[median_s |-> 33, count |-> 1], [median_s |-> 28, count |-> 2]>>

(***************************************************************************)
(* What an EFFORT segment is made of (checked under SpecDetect).           *)
(***************************************************************************)
\* The candidates that pass the duration/distance filter, and those that fail.
AcceptedCandidates == {b \in Candidates : MeetsMinimums(b)}
RejectedCandidates == Candidates \ AcceptedCandidates

\* Candidate b lies inside row r.
Inside(b, r) == r.start_idx <= b[2] /\ b[3] <= r.end_idx

\* Sample i belongs to an accepted candidate.
InAccepted(i) == \E b \in AcceptedCandidates : b[2] <= i /\ i <= b[3]

\* Sample i of row r lies between two accepted candidates of r that are at
\* most merge_gap_s samples apart.
InBridgedGap(i, r) ==
    \E a, b \in AcceptedCandidates :
        /\ Inside(a, r) /\ Inside(b, r)
        /\ a[3] < i /\ i < b[2]
        /\ b[2] - a[3] - 1 <= merge_gap_s

\* Every EFFORT row starts and ends with an accepted candidate, and every
\* accepted candidate lies inside exactly one EFFORT row.
BuiltFromAccepted ==
    /\ \A r \in EmittedOf("EFFORT") :
          /\ \E b \in AcceptedCandidates : b[2] = r.start_idx
          /\ \E b \in AcceptedCandidates : b[3] = r.end_idx
    /\ \A b \in AcceptedCandidates :
          Cardinality({r \in EmittedOf("EFFORT") : Inside(b, r)}) = 1

\* C29 as stated: every EFFORT segment starts and ends with an accepted
\* candidate, every accepted candidate lies inside exactly one EFFORT segment,
\* and outside accepted candidates a segment holds only samples labelled
\* NEUTRAL: no rejected candidate is swallowed by merging.
C29_NeverSwallowed ==
    locals # None =>
        /\ BuiltFromAccepted
        /\ \A r \in EmittedOf("EFFORT") :
              \A i \in r.start_idx..r.end_idx :
                 InAccepted(i) \/ locals[1].labels[i + 1] = "NEUTRAL"
        /\ \A c \in RejectedCandidates : \A r \in EmittedOf("EFFORT") : ~Inside(c, r)

\* C29 (amended): every EFFORT segment starts and ends with an accepted
\* candidate, every accepted candidate lies inside exactly one EFFORT segment,
\* and outside accepted candidates a segment holds only the samples of gaps
\* of at most merge_gap_s samples between accepted candidates; a rejected
\* candidate overlapping a segment lies wholly in such a gap, NEUTRAL samples
\* on both sides, so it spans at most merge_gap_s - 2 samples.
C29_SwallowedOnlyInGaps ==
    locals # None =>
        /\ BuiltFromAccepted
        /\ \A r \in EmittedOf("EFFORT") :
              \A i \in r.start_idx..r.end_idx : InAccepted(i) \/ InBridgedGap(i, r)
        /\ \A c \in RejectedCandidates : \A r \in EmittedOf("EFFORT") :
              (c[2] <= r.end_idx /\ r.start_idx <= c[3]) =>
                  /\ InBridgedGap(c[2], r) /\ InBridgedGap(c[3], r)
                  /\ c[3] - c[2] + 1 <= merge_gap_s - 2
                  /\ locals[1].labels[c[2]] = "NEUTRAL"
                  /\ locals[1].labels[c[3] + 2] = "NEUTRAL"

\* A one-sample candidate, rejected for its duration of 0 s, lies in a gap of
\* 3 samples between two accepted candidates and inside the EFFORT row that
\* merges them.
C29_Witness ==
    /\ pc = "inserted"
    /\ \E c \in RejectedCandidates : \E r \in EmittedOf("EFFORT") :
          /\ c[2] = c[3]
          /\ TooShort(c)
          /\ r.start_idx < c[2] /\ c[3] < r.end_idx
          /\ \E a, b \in AcceptedCandidates :
                a[2] = r.start_idx /\ a[3] = c[2] - 2 /\ b[2] = c[3] + 2 /\ b[3] = r.end_idx

(***************************************************************************)
(* The summary against the persisted rows (checked under SpecDetect).      *)
(***************************************************************************)
\* The rows of `type` that table holds for activity a.
Persisted(table, a, type) == {r \in StructuralOf(table, a) : r.lap_type = type}

\* Every duration of all the clusters' members, as one sequence.
RECURSIVE AllMembers(_)
AllMembers(clusters) ==
    IF clusters = <<>> THEN <<>>
    ELSE clusters[1].members \o AllMembers(Tail(clusters))

\* C30: in every result with effort_count >= 1, effort_count and recup_count
\* are the numbers of EFFORT and RECUP rows the run persisted, warmup and
\* cooldown are true exactly when a WARMUP and a COOLDOWN row were persisted,
\* and the duration clustered for each effort is the duration_s persisted for
\* its EFFORT row.
C30_SummaryMatchesRows ==
    [][(pc = "inserted" /\ pc' = "idle") =>
          LET a == locals[1].activity_id
              res == last_call'.value
              efforts == Persisted(laps_auto', a, "EFFORT")
              durations == locals[1].effort_durations
          IN  /\ last_call' = Returned(a, res)
              /\ res.effort_count >= 1
              /\ res.effort_count = Cardinality(efforts)
              /\ res.recup_count = Cardinality(Persisted(laps_auto', a, "RECUP"))
              /\ res.warmup <=> Persisted(laps_auto', a, "WARMUP") # {}
              /\ res.cooldown <=> Persisted(laps_auto', a, "COOLDOWN") # {}
              /\ Len(durations) = res.effort_count
              /\ \A i \in 1..Len(durations) :
                    \E r \in efforts : r.lap_index = i /\ r.duration_s = durations[i]
              /\ \A r \in efforts :
                    Occurrences(AllMembers(res.clusters), r.duration_s)
                       = Cardinality({q \in efforts : q.duration_s = r.duration_s})]_vars

\* A run on a recording sampled every 2 s has returned: one EFFORT row is
\* persisted, its duration_s in seconds exceeds its count of samples and is
\* the one member of the one cluster; warmup and cooldown are reported and
\* persisted.
C30_Witness ==
    /\ pc = "idle"
    /\ last_call.op = "build"
    /\ last_call.kind = "return"
    /\ last_call.value.effort_count = 1
    /\ last_call.value.warmup /\ last_call.value.cooldown
    /\ \E r \in Persisted(laps_auto, last_call.activity_id, "EFFORT") :
          /\ r.duration_s > r.end_idx - r.start_idx
          /\ last_call.value.clusters =
                <<[median_s |-> r.duration_s, count |-> 1, members |-> <<r.duration_s>>]>>
    /\ Persisted(laps_auto, last_call.activity_id, "WARMUP") # {}
    /\ Persisted(laps_auto, last_call.activity_id, "COOLDOWN") # {}

====
